---- MODULE Spec2Model ----
(***************************************************************************)
(* Timetabling repair pipeline: hard/soft constraint validator, schedule   *)
(* merger, repair controller (validator / fixer / merger loop) and the     *)
(* optimizer accept/rollback loop.                                          *)
(*                                                                         *)
(* Python strings are sequences of one-character strings, so that strip,   *)
(* split, startswith and int() are computed and not assumed.  Python dicts *)
(* are functions from key strings to values: a key that the code pops is   *)
(* removed from the domain.  Python's None is the value None below.        *)
(***************************************************************************)
EXTENDS Integers, Sequences, FiniteSets, TLC

\* ------------------------------------------------------------------------
\* Python values
\* ------------------------------------------------------------------------

\* the None object: a one-element sequence that is no character string
None == <<"<None>">>

\* str(v) for the values of the model: strings and None
PyStr(v) == IF v = None THEN <<"N", "o", "n", "e">> ELSE v

\* d.get(k)
Get(d, k) == IF k \in DOMAIN d THEN d[k] ELSE None

\* d.get(k, default)
GetD(d, k, default) == IF k \in DOMAIN d THEN d[k] ELSE default

\* d[k] = v
Put(d, k, v) == [x \in DOMAIN d \cup {k} |-> IF x = k THEN v ELSE d[x]]

\* d.pop(k, None)
Pop(d, k) == [x \in DOMAIN d \ {k} |-> d[x]]

Whitespace == {" ", "\t", "\n"}

RECURSIVE LStrip(_)
LStrip(s) == IF s # <<>> /\ Head(s) \in Whitespace THEN LStrip(Tail(s)) ELSE s

RECURSIVE RStrip(_)
RStrip(s) ==
    IF s # <<>> /\ s[Len(s)] \in Whitespace THEN RStrip(SubSeq(s, 1, Len(s) - 1)) ELSE s

\* s.strip()
Strip(s) == RStrip(LStrip(s))

\* position of the first occurrence of character ch in s, 0 when absent
RECURSIVE FindFrom(_, _, _)
FindFrom(s, ch, p) ==
    IF p > Len(s) THEN 0 ELSE IF s[p] = ch THEN p ELSE FindFrom(s, ch, p + 1)

Find(s, ch) == FindFrom(s, ch, 1)

\* s.split(ch): the list of the pieces between the occurrences of ch
RECURSIVE Split(_, _)
Split(s, ch) ==
    LET p == Find(s, ch)
    IN  IF p = 0 THEN <<s>>
        ELSE <<SubSeq(s, 1, p - 1)>> \o Split(SubSeq(s, p + 1, Len(s)), ch)

\* s.startswith(prefix)
StartsWith(s, prefix) ==
    Len(s) >= Len(prefix) /\ SubSeq(s, 1, Len(prefix)) = prefix

Digits == <<"0", "1", "2", "3", "4", "5", "6", "7", "8", "9">>

IsDigit(ch) == \E d \in DOMAIN Digits : Digits[d] = ch

DigitVal(ch) == (CHOOSE d \in DOMAIN Digits : Digits[d] = ch) - 1

AllDigits(s) == s # <<>> /\ \A i \in DOMAIN s : IsDigit(s[i])

RECURSIVE DigitsVal(_)
DigitsVal(s) ==
    IF s = <<>> THEN 0
    ELSE 10 * DigitsVal(SubSeq(s, 1, Len(s) - 1)) + DigitVal(s[Len(s)])

\* int(s) succeeds: optional surrounding whitespace, optional sign, digits
IsIntLiteral(s) ==
    LET t == Strip(s)
    IN  /\ t # <<>>
        /\ IF Head(t) \in {"+", "-"} THEN AllDigits(Tail(t)) ELSE AllDigits(t)

\* int(s), for s with IsIntLiteral(s)
IntOf(s) ==
    LET t == Strip(s)
    IN  IF Head(t) = "-" THEN 0 - DigitsVal(Tail(t))
        ELSE IF Head(t) = "+" THEN DigitsVal(Tail(t))
        ELSE DigitsVal(t)

\* str(n) for an integer n
RECURSIVE NatStr(_)
NatStr(n) == IF n < 10 THEN <<Digits[n + 1]>> ELSE NatStr(n \div 10) \o <<Digits[(n % 10) + 1]>>

IntStr(n) == IF n < 0 THEN <<"-">> \o NatStr(0 - n) ELSE NatStr(n)

\* the elements of a list, as a set
Range(s) == {s[i] : i \in DOMAIN s}

\* the sum of a list of integers
RECURSIVE SumSeq(_)
SumSeq(s) == IF s = <<>> THEN 0 ELSE Head(s) + SumSeq(Tail(s))

\* sorted(s) for a list of integers (insertion sort; duplicates kept)
RECURSIVE SortInts(_)
SortInts(s) ==
    IF s = <<>> THEN <<>>
    ELSE LET rest == SortInts(Tail(s))
             k == Cardinality({i \in DOMAIN rest : rest[i] < Head(s)})
         IN  SubSeq(rest, 1, k) \o <<Head(s)>> \o SubSeq(rest, k + 1, Len(rest))

\* the concatenation of a list of lists
RECURSIVE Flatten(_)
Flatten(ss) == IF ss = <<>> THEN <<>> ELSE Head(ss) \o Flatten(Tail(ss))

\* the distinct values of a list in order of first occurrence (dict key order)
RECURSIVE Distinct(_)
Distinct(s) ==
    IF s = <<>> THEN <<>>
    ELSE LET init == Distinct(SubSeq(s, 1, Len(s) - 1))
         IN  IF s[Len(s)] \in Range(init) THEN init ELSE Append(init, s[Len(s)])

\* [f(x) for x in s]
MapSeq(s, F(_)) == [i \in DOMAIN s |-> F(s[i])]

\* ------------------------------------------------------------------------
\* Static reference data (instructors.json, rooms.json, courses.json,
\* curriculum.json): read-only for the lifetime of a run
\* ------------------------------------------------------------------------

SlotStr(d, p) == IntStr(d) \o <<"-">> \o IntStr(p)

\* the placeholder of a course that has no assignment
Unassigned == <<"<", ">">>

I1 == <<"I", "1">>
I2 == <<"I", "2">>
R1 == <<"R", "1">>
R2 == <<"R", "2">>
Lab == <<"L", "a", "b">>
Lec == <<"L", "e", "c">>

instructors ==
    << [instructor_id |-> I1, available_times |-> <<>>],
       [instructor_id |-> I2,
        available_times |-> SlotStr(1, 1) \o <<";", " ">> \o SlotStr(1, 2) \o <<";">> \o SlotStr(1, 3),
        max_courses_per_day |-> 1] >>

rooms ==
    << [room_id |-> R1, room_capacity |-> 50, room_type |-> Lab, available_times |-> <<>>],
       [room_id |-> R2, room_capacity |-> 30, room_type |-> Lec,
        available_times |-> SlotStr(1, 1) \o <<";">> \o SlotStr(1, 2) \o <<";">> \o SlotStr(1, 3)
                            \o <<";">> \o SlotStr(1, 4)] >>

courses ==
    << [course_id |-> <<"A", "-", "1">>, num_students |-> 30, assigned_instructor |-> I1],
       [course_id |-> <<"A", "-", "2">>, num_students |-> 40, assigned_instructor |-> I1,
        required_room_type |-> Lab],
       [course_id |-> <<"B", "-", "1">>, num_students |-> 20, assigned_instructor |-> I2],
       [course_id |-> <<"C", "-", "1">>, num_students |-> 25, assigned_instructor |-> I1],
       [course_id |-> <<"B", "-", "2">>, num_students |-> 10, assigned_instructor |-> I2] >>

\* semester label -> list of base courses
curriculum ==
    << [sem |-> <<"S", "1">>, course_list |-> << [course_id |-> <<"A">>], [course_id |-> <<"B">>] >>],
       [sem |-> <<"S", "2">>, course_list |-> << [course_id |-> <<"C">>] >>] >>

\* {str(e[key]): e for e in entries}: a later entry replaces an earlier one
MapBy(entries, key) ==
    [k \in {PyStr(entries[i][key]) : i \in DOMAIN entries} |->
        LET last == CHOOSE i \in DOMAIN entries :
                        /\ PyStr(entries[i][key]) = k
                        /\ \A j \in DOMAIN entries : PyStr(entries[j][key]) = k => j <= i
        IN  entries[last]]

instructor_map == MapBy(instructors, "instructor_id")
course_map == MapBy(courses, "course_id")
room_map == MapBy(rooms, "room_id")

course_to_semester_map ==
    LET pairs == Flatten([i \in DOMAIN curriculum |->
                     [j \in DOMAIN curriculum[i].course_list |->
                         [base |-> PyStr(curriculum[i].course_list[j].course_id),
                          sem |-> curriculum[i].sem]]])
    IN  [b \in {pairs[i].base : i \in DOMAIN pairs} |->
            LET last == CHOOSE i \in DOMAIN pairs :
                            /\ pairs[i].base = b
                            /\ \A j \in DOMAIN pairs : pairs[j].base = b => j <= i
            IN  pairs[last].sem]

\* ------------------------------------------------------------------------
\* Hard constraint rules
\* ------------------------------------------------------------------------

UNASSIGNED_VALUES == {None, <<"N", "o", "n", "e">>, Unassigned, <<>>}

is_assigned(value) ==
    IF value = None THEN FALSE ELSE Strip(value) \notin UNASSIGNED_VALUES

\* (None, None) is the result with ok = FALSE
NoSlot == [ok |-> FALSE, day |-> 0, period |-> 0]

\* clean.split("-") without maxsplit: the first two of all the parts
parse_time_slot_split_all(time_slot_str) ==
    IF time_slot_str = None THEN NoSlot
    ELSE LET clean == Strip(time_slot_str)
             parts == Split(clean, "-")
         IN  IF Find(clean, "-") = 0 THEN NoSlot
             ELSE IF IsIntLiteral(parts[1]) /\ IsIntLiteral(parts[2])
                  THEN [ok |-> TRUE, day |-> IntOf(parts[1]), period |-> IntOf(parts[2])]
                  ELSE NoSlot

parse_time_slot(time_slot_str) ==
    IF time_slot_str = None THEN NoSlot
    ELSE LET clean == Strip(time_slot_str)
             p == Find(clean, "-")
             d == SubSeq(clean, 1, p - 1)
             q == SubSeq(clean, p + 1, Len(clean))
         IN  IF p = 0 THEN NoSlot
             ELSE IF IsIntLiteral(d) /\ IsIntLiteral(q)
                  THEN [ok |-> TRUE, day |-> IntOf(d), period |-> IntOf(q)]
                  ELSE NoSlot

IdsOf(cs) == {PyStr(cs[i]["course_id"]) : i \in DOMAIN cs}

\* {c[key]: [courses with that key]}
GroupBy(cs, key) ==
    [k \in {cs[i][key] : i \in DOMAIN cs} |-> SelectSeq(cs, LAMBDA c : c[key] = k)]

\* {c[outer]: {c[inner]: [courses]}}
GroupBy2(cs, outer, inner) ==
    [k \in {cs[i][outer] : i \in DOMAIN cs} |->
        GroupBy(SelectSeq(cs, LAMBDA c : c[outer] = k), inner)]

\* the ids flagged "Instructor Conflict"
check_instructor_conflict(instructor_schedule) ==
    UNION {UNION {IF Len(instructor_schedule[inst][ts]) > 1
                  THEN IdsOf(instructor_schedule[inst][ts]) ELSE {}
                  : ts \in DOMAIN instructor_schedule[inst]}
           : inst \in DOMAIN instructor_schedule}

\* a variant flagging a bucket only when exactly two courses share it
check_room_conflict_pairs_only(room_schedule) ==
    UNION {UNION {IF Len(room_schedule[rid][ts]) = 2
                  THEN IdsOf(room_schedule[rid][ts]) ELSE {}
                  : ts \in DOMAIN room_schedule[rid]}
           : rid \in DOMAIN room_schedule}

\* a variant flagging only the later courses of a bucket, not the first
check_room_conflict_later_only(room_schedule) ==
    UNION {UNION {IF Len(room_schedule[rid][ts]) > 1
                  THEN IdsOf(Tail(room_schedule[rid][ts])) ELSE {}
                  : ts \in DOMAIN room_schedule[rid]}
           : rid \in DOMAIN room_schedule}

\* the ids flagged "Room Conflict"
check_room_conflict(room_schedule) ==
    UNION {UNION {IF Len(room_schedule[rid][ts]) > 1
                  THEN IdsOf(room_schedule[rid][ts]) ELSE {}
                  : ts \in DOMAIN room_schedule[rid]}
           : rid \in DOMAIN room_schedule}

\* a variant with >= in place of >
check_room_capacity_inclusive(cs, rmap, cmap) ==
    {PyStr(cs[i]["course_id"]) : i \in
        {i \in DOMAIN cs :
            LET course_id == PyStr(cs[i]["course_id"])
                room_id == PyStr(Get(cs[i], "room_id"))
            IN  /\ is_assigned(room_id)
                /\ course_id \in DOMAIN cmap
                /\ room_id \in DOMAIN rmap
                /\ GetD(cmap[course_id], "num_students", 0)
                       >= GetD(rmap[room_id], "room_capacity", 0)}}

\* the ids flagged "Room Capacity"
check_room_capacity(cs, rmap, cmap) ==
    {PyStr(cs[i]["course_id"]) : i \in
        {i \in DOMAIN cs :
            LET course_id == PyStr(cs[i]["course_id"])
                room_id == PyStr(Get(cs[i], "room_id"))
            IN  /\ is_assigned(room_id)
                /\ course_id \in DOMAIN cmap
                /\ room_id \in DOMAIN rmap
                /\ GetD(cmap[course_id], "num_students", 0)
                       > GetD(rmap[room_id], "room_capacity", 0)}}

\* a variant that compares the room type also without a required type
check_room_type_unconditional(cs, rmap, cmap) ==
    {PyStr(cs[i]["course_id"]) : i \in
        {i \in DOMAIN cs :
            LET course_id == PyStr(cs[i]["course_id"])
                room_id == PyStr(Get(cs[i], "room_id"))
                required_type == IF course_id \in DOMAIN cmap
                                 THEN Get(cmap[course_id], "required_room_type") ELSE None
            IN  /\ is_assigned(room_id)
                /\ room_id \in DOMAIN rmap
                /\ Get(rmap[room_id], "room_type") # required_type}}

\* the ids flagged "Room Type"
check_room_type(cs, rmap, cmap) ==
    {PyStr(cs[i]["course_id"]) : i \in
        {i \in DOMAIN cs :
            LET course_id == PyStr(cs[i]["course_id"])
                room_id == PyStr(Get(cs[i], "room_id"))
                required_type == IF course_id \in DOMAIN cmap
                                 THEN Get(cmap[course_id], "required_room_type") ELSE None
            IN  /\ is_assigned(room_id)
                /\ required_type \notin {None, <<>>}
                /\ room_id \in DOMAIN rmap
                /\ Get(rmap[room_id], "room_type") # required_type}}

\* the set of slots of an available_times string "a;b;c"
valid_slots(info) ==
    LET parts == Split(PyStr(GetD(info, "available_times", <<>>)), ";")
    IN  {Strip(parts[i]) : i \in {i \in DOMAIN parts : Strip(parts[i]) # <<>>}}

\* a variant in which an entity without available_times is never available
check_availabilities_empty_blocks(cs, entity_map, entity_key) ==
    {PyStr(cs[i]["course_id"]) : i \in
        {i \in DOMAIN cs :
            LET entity_id == PyStr(Get(cs[i], entity_key))
                time_slot == Get(cs[i], "time_slot")
            IN  /\ is_assigned(entity_id)
                /\ is_assigned(time_slot)
                /\ entity_id \in DOMAIN entity_map
                /\ time_slot \notin valid_slots(entity_map[entity_id])}}

\* a variant that counts an entity the static data does not hold as never available
check_availabilities_unresolved_blocks(cs, entity_map, entity_key) ==
    {PyStr(cs[i]["course_id"]) : i \in
        {i \in DOMAIN cs :
            LET entity_id == PyStr(Get(cs[i], entity_key))
                time_slot == Get(cs[i], "time_slot")
            IN  /\ is_assigned(entity_id)
                /\ is_assigned(time_slot)
                /\ \/ entity_id \notin DOMAIN entity_map
                   \/ /\ valid_slots(entity_map[entity_id]) # {}
                      /\ time_slot \notin valid_slots(entity_map[entity_id])}}

\* the ids flagged with the availability of the entity under entity_key
check_availabilities(cs, entity_map, entity_key) ==
    {PyStr(cs[i]["course_id"]) : i \in
        {i \in DOMAIN cs :
            LET entity_id == PyStr(Get(cs[i], entity_key))
                time_slot == Get(cs[i], "time_slot")
            IN  /\ is_assigned(entity_id)
                /\ is_assigned(time_slot)
                /\ entity_id \in DOMAIN entity_map
                /\ valid_slots(entity_map[entity_id]) # {}
                /\ time_slot \notin valid_slots(entity_map[entity_id])}}

DEFAULT_MAX_COURSES_PER_DAY == 4

\* the ids flagged "Instructor Daily Load"
check_instructor_load(instructor_schedule, imap) ==
    UNION {
        LET time_slots == instructor_schedule[inst_id]
            counted == {ts \in DOMAIN time_slots :
                            time_slots[ts] # <<>> /\ parse_time_slot(ts).ok}
            daily_load(day) == Cardinality({ts \in counted : parse_time_slot(ts).day = day})
            max_load == IF PyStr(inst_id) \in DOMAIN imap
                        THEN GetD(imap[PyStr(inst_id)], "max_courses_per_day",
                                  DEFAULT_MAX_COURSES_PER_DAY)
                        ELSE DEFAULT_MAX_COURSES_PER_DAY
        IN  UNION {IF daily_load(day) > max_load
                   THEN UNION {IdsOf(time_slots[ts]) : ts \in
                                   {t \in DOMAIN time_slots :
                                        parse_time_slot(t).ok /\ parse_time_slot(t).day = day}}
                   ELSE {}
                   : day \in {parse_time_slot(ts).day : ts \in counted}}
        : inst_id \in DOMAIN instructor_schedule}

\* course_id.split('-')[0]
BaseId(course_id) == Split(PyStr(course_id), "-")[1]

\* the ids flagged "Intra-Semester Conflict"
check_intra_semester(schedule_by_ts, course_sem_map) ==
    UNION {
        LET cs == schedule_by_ts[ts]
            clash(i, j) ==
                LET base1 == BaseId(cs[i]["course_id"])
                    base2 == BaseId(cs[j]["course_id"])
                IN  /\ base1 # base2
                    /\ base1 \in DOMAIN course_sem_map
                    /\ base2 \in DOMAIN course_sem_map
                    /\ course_sem_map[base1] # <<>>
                    /\ course_sem_map[base2] # <<>>
                    /\ course_sem_map[base1] = course_sem_map[base2]
        IN  UNION {IF clash(pr[1], pr[2])
                   THEN {PyStr(cs[pr[1]]["course_id"]), PyStr(cs[pr[2]]["course_id"])}
                   ELSE {}
                   : pr \in {pr \in (DOMAIN cs) \X (DOMAIN cs) : pr[1] < pr[2]}}
        : ts \in DOMAIN schedule_by_ts}

\* ------------------------------------------------------------------------
\* ScheduleValidator
\* ------------------------------------------------------------------------

\* a variant that also leaves out the courses annotated by an earlier pass
valid_courses_unannotated(schedule) ==
    SelectSeq(schedule, LAMBDA c : /\ Get(c, "time_slot") \notin {None, Unassigned}
                                   /\ Get(c, "room_id") \notin {None, Unassigned}
                                   /\ "hard_violation_types" \notin DOMAIN c)

\* the courses the hard validation looks at
valid_courses(schedule) ==
    SelectSeq(schedule, LAMBDA c : /\ Get(c, "time_slot") \notin {None, Unassigned}
                                   /\ Get(c, "room_id") \notin {None, Unassigned})

\* violation kind -> the ids it flags
hard_checks(schedule) ==
    LET vc == valid_courses(schedule)
        sched_by_ts == GroupBy(vc, "time_slot")
        inst_sched == GroupBy2(vc, "assigned_instructor", "time_slot")
        room_sched == GroupBy2(vc, "room_id", "time_slot")
    IN  [ic |-> check_instructor_conflict(inst_sched),
         rc |-> check_room_conflict(room_sched),
         cap |-> check_room_capacity(vc, room_map, course_map),
         typ |-> check_room_type(vc, room_map, course_map),
         ia |-> check_availabilities(vc, instructor_map, "assigned_instructor"),
         ra |-> check_availabilities(vc, room_map, "room_id"),
         load |-> check_instructor_load(inst_sched, instructor_map),
         sem |-> check_intra_semester(sched_by_ts, course_to_semester_map)]

KindName ==
    [ic |-> "Instructor Conflict", rc |-> "Room Conflict", cap |-> "Room Capacity",
     typ |-> "Room Type", ia |-> "Instructor Availability", ra |-> "Room Availability",
     load |-> "Instructor Daily Load", sem |-> "Intra-Semester Conflict"]

\* (violating_ids, details); details[cid] is the set of kinds of course cid
validate_hard_constraints(schedule) ==
    LET found == hard_checks(schedule)
        ids == UNION {found[k] : k \in DOMAIN found}
    IN  [violating_ids |-> ids,
         details |-> [cid \in ids |-> {KindName[k] : k \in {k \in DOMAIN found : cid \in found[k]}}]]

\* per instructor, the time slots of their courses, in schedule order
soft_inst_sched(schedule) ==
    LET vc == SelectSeq(schedule, LAMBDA c : Get(c, "time_slot") \notin {None, Unassigned})
        insts == Distinct(MapSeq(vc, LAMBDA c : c["assigned_instructor"]))
    IN  [i \in DOMAIN insts |->
            [instructor_id |-> insts[i],
             time_slots |-> MapSeq(SelectSeq(vc, LAMBDA c : c["assigned_instructor"] = insts[i]),
                                   LAMBDA c : c["time_slot"])]]

\* a variant without periods.sort()
day_gaps_unsorted(periods) ==
    LET sorted == periods
    IN  SumSeq([i \in 1 .. (Len(sorted) - 1) |->
                   IF sorted[i + 1] - sorted[i] - 1 > 0 THEN sorted[i + 1] - sorted[i] - 1 ELSE 0])

\* the gap of one day: the sum of the positive next - prev - 1 over the sorted periods
day_gaps(periods) ==
    LET sorted == SortInts(periods)
    IN  SumSeq([i \in 1 .. (Len(sorted) - 1) |->
                   IF sorted[i + 1] - sorted[i] - 1 > 0 THEN sorted[i + 1] - sorted[i] - 1 ELSE 0])

\* the gap details as a list of (instructor, day, gap) in the order the dict of
\* the report lists them: instructors and days by first occurrence, gap > 0 only
calculate_instructor_gaps(instructor_schedule) ==
    Flatten([i \in DOMAIN instructor_schedule |->
        LET parsed == SelectSeq(MapSeq(instructor_schedule[i].time_slots, parse_time_slot),
                                LAMBDA r : r.ok)
            days == Distinct(MapSeq(parsed, LAMBDA r : r.day))
            periods(day) == MapSeq(SelectSeq(parsed, LAMBDA r : r.day = day), LAMBDA r : r.period)
            rows == [d \in DOMAIN days |->
                        [instructor_id |-> PyStr(instructor_schedule[i].instructor_id),
                         day |-> IntStr(days[d]),
                         gap |-> IF Len(periods(days[d])) <= 1 THEN 0
                                 ELSE day_gaps(periods(days[d]))]]
        IN  SelectSeq(rows, LAMBDA r : r.gap > 0)])

\* the number of distinct rooms in use
calculate_room_usage(cs) ==
    Cardinality({PyStr(cs[i]["room_id"]) : i \in {i \in DOMAIN cs : is_assigned(Get(cs[i], "room_id"))}})

W_GAP == 1
W_ROOM == 1

validate_soft_constraints(schedule) ==
    LET vc == SelectSeq(schedule, LAMBDA c : Get(c, "time_slot") \notin {None, Unassigned})
        gap_details == calculate_instructor_gaps(soft_inst_sched(schedule))
        gap_penalty == SumSeq(MapSeq(gap_details, LAMBDA r : r.gap))
        room_penalty == calculate_room_usage(vc)
    IN  [total_weighted_penalty |-> gap_penalty * W_GAP + room_penalty * W_ROOM,
         gap_raw |-> gap_penalty,
         gap_details |-> gap_details,
         room_raw |-> room_penalty]

\* ------------------------------------------------------------------------
\* Files and ScheduleMerger
\* ------------------------------------------------------------------------

DotJson == <<".", "j", "s", "o", "n">>

\* "batch_<idx>.json"
BatchName(idx) == <<"b", "a", "t", "c", "h", "_">> \o IntStr(idx) \o DotJson

\* the length of the run of digits of name that starts at position p
RECURSIVE DigitRun(_, _)
DigitRun(name, p) ==
    IF p <= Len(name) /\ IsDigit(name[p]) THEN 1 + DigitRun(name, p + 1) ELSE 0

\* re.search(r'_(\d+)\.json', name): the positions p of a "_" that is followed
\* by digits and ".json"
IndexMatches(name) ==
    {p \in DOMAIN name :
        /\ name[p] = "_"
        /\ DigitRun(name, p + 1) >= 1
        /\ LET q == p + DigitRun(name, p + 1)
           IN  q + Len(DotJson) <= Len(name) /\ SubSeq(name, q + 1, q + Len(DotJson)) = DotJson}

\* the sort key of a file: the integer of the first match, 0 without a match
FileIndex(name) ==
    IF IndexMatches(name) = {} THEN 0
    ELSE LET p == CHOOSE p \in IndexMatches(name) : \A q \in IndexMatches(name) : p <= q
         IN  DigitsVal(SubSeq(name, p + 1, p + DigitRun(name, p + 1)))

\* sorted(names, key=FileIndex)
RECURSIVE SortedFiles(_)
SortedFiles(names) ==
    IF names = {} THEN <<>>
    ELSE LET first == CHOOSE f \in names : \A g \in names : FileIndex(f) <= FileIndex(g)
         IN  <<first>> \o SortedFiles(names \ {first})

\* lines 27-32: how many files the next output batch takes; before it, three
\* faulty variants: one file at a time, pairs only, and three whenever possible
merge_count_single(remaining, total_files) == 1
merge_count_pairs(remaining, total_files) == IF remaining >= 2 THEN 2 ELSE 1
merge_count_greedy(remaining, total_files) ==
    IF remaining >= 3 THEN 3 ELSE IF remaining >= 2 THEN 2 ELSE 1
merge_count(remaining, total_files) ==
    IF remaining = 3 /\ total_files % 2 # 0 THEN 3
    ELSE IF remaining >= 2 THEN 2
    ELSE 1

\* lines 24-35: the chunks of the while loop, from position i (0-based)
RECURSIVE merge_chunks(_, _)
merge_chunks(files, i) ==
    IF i >= Len(files) THEN <<>>
    ELSE LET n == merge_count(Len(files) - i, Len(files))
             last == IF i + n <= Len(files) THEN i + n ELSE Len(files)
         IN  <<SubSeq(files, i + 1, last)>> \o merge_chunks(files, i + n)

\* lines 42-44: the flags a merge removes from a course; before it, a faulty
\* variant that keeps fixed_by_llm_attempt
clean_flags_keep_attempt(c) == Pop(c, "hard_violation_types")
clean_flags(c) == Pop(Pop(c, "fixed_by_llm_attempt"), "hard_violation_types")

\* lines 37-45: the merged batch of one chunk; dir maps file names to their data;
\* before it, a faulty variant that reads two files of the chunk at most
merged_batch_two_files(dir, chunk) ==
    Flatten([f \in {f \in DOMAIN chunk : f <= 2} |-> MapSeq(dir[chunk[f]], clean_flags)])
merged_batch(dir, chunk) ==
    Flatten([f \in DOMAIN chunk |-> MapSeq(dir[chunk[f]], clean_flags)])

\* a directory without files
NoFiles == [f \in {} |-> <<>>]

\* merge_directory: the output directory (working_schedules and the
\* consolidated schedule) for the input directory dir
merge_directory(dir) ==
    LET files == SortedFiles(DOMAIN dir)
        batches == SelectSeq(MapSeq(merge_chunks(files, 0), LAMBDA ch : merged_batch(dir, ch)),
                             LAMBDA b : b # <<>>)
    IN  [working_schedules |-> [name \in {BatchName(idx) : idx \in DOMAIN batches} |->
                                    batches[FileIndex(name)]],
         consolidated |-> Flatten(batches)]

\* call_llm returned None: no response, or one that failed the schema
NoResponse == [failed |-> TRUE]

NO_FIX_FOUND == <<"N", "O", "_", "F", "I", "X", "_", "F", "O", "U", "N", "D">>

\* "response and response.get('time_slot')"
HasTimeSlot(resp) == "time_slot" \in DOMAIN resp /\ resp.time_slot # <<>>

\* ------------------------------------------------------------------------
\* BatchProcessor, run_validator, GeneratorAgent, FixerAgent
\* ------------------------------------------------------------------------

\* courses.sort(key=num_students, reverse=True): stable, largest first
RECURSIVE SortByStudents(_)
SortByStudents(cs) ==
    IF cs = <<>> THEN <<>>
    ELSE LET rest == SortByStudents(SubSeq(cs, 1, Len(cs) - 1))
             c == cs[Len(cs)]
             k == Cardinality({j \in DOMAIN rest :
                      GetD(rest[j], "num_students", 0) >= GetD(c, "num_students", 0)})
         IN  SubSeq(rest, 1, k) \o <<c>> \o SubSeq(rest, k + 1, Len(rest))

\* "batch_courses_<idx>.json"
BatchCoursesName(idx) ==
    <<"b", "a", "t", "c", "h", "_", "c", "o", "u", "r", "s", "e", "s", "_">> \o IntStr(idx) \o DotJson

\* batcher.py 37-38: the placeholders of a course of a batch; before it, a
\* variant that resets the time slot alone
reset_assignment_slot_only(c) == Put(c, "time_slot", Unassigned)
reset_assignment(c) == Put(Put(c, "time_slot", Unassigned), "room_id", Unassigned)

\* prepare_initial_batches: the files it writes to BATCH_COURSES_DIR; none when
\* the courses or the instructors are missing
prepare_initial_batches(cs, insts, batch_size) ==
    IF cs = <<>> \/ insts = <<>> THEN NoFiles
    ELSE
    LET sorted == SortByStudents(cs)
        num_batches == (Len(sorted) + batch_size - 1) \div batch_size
        subset(b) == SubSeq(sorted, (b - 1) * batch_size + 1,
                            IF b * batch_size <= Len(sorted) THEN b * batch_size ELSE Len(sorted))
    IN  [name \in {BatchCoursesName(b) : b \in 1 .. num_batches} |->
            MapSeq(subset(FileIndex(name)), reset_assignment)]

\* an agent's output directory: the batch files of working_schedules, the
\* consolidated_schedule*.json file (if any) and the validation_output tree
EmptyDir == [working_schedules |-> NoFiles, consolidated |-> NoFiles, validation_output |-> NoFiles]

ConsolidatedName ==
    <<"c", "o", "n", "s", "o", "l", "i", "d", "a", "t", "e", "d", "_",
      "s", "c", "h", "e", "d", "u", "l", "e">> \o DotJson

ConsolidatedDebugName ==
    <<"c", "o", "n", "s", "o", "l", "i", "d", "a", "t", "e", "d", "_",
      "s", "c", "h", "e", "d", "u", "l", "e", "_", "D", "E", "B", "U", "G">> \o DotJson

BatchPrefix == <<"b", "a", "t", "c", "h", "_">>

\* steps.py 68-75: the annotation of a validated schedule; before it, a
\* variant that adds the kinds found to the kinds a course carries
annotate_accumulating(sched, details) ==
    MapSeq(sched, LAMBDA c :
        IF PyStr(Get(c, "course_id")) \in DOMAIN details
        THEN Put(c, "hard_violation_types",
                 GetD(c, "hard_violation_types", {}) \cup details[PyStr(Get(c, "course_id"))])
        ELSE c)
annotate(sched, details) ==
    MapSeq(sched, LAMBDA c :
        IF PyStr(Get(c, "course_id")) \in DOMAIN details
        THEN Put(c, "hard_violation_types", details[PyStr(Get(c, "course_id"))])
        ELSE Pop(c, "hard_violation_types"))

\* run_validator: validation_output of the directory, one entry per validated
\* file: the annotated schedule and the report's count
run_validator(dir) ==
    LET files == [name \in DOMAIN dir.consolidated \cup DOMAIN dir.working_schedules |->
                     IF name \in DOMAIN dir.consolidated THEN dir.consolidated[name]
                     ELSE dir.working_schedules[name]]
    IN  [dir EXCEPT !.validation_output =
            [name \in DOMAIN files |->
                LET found == validate_hard_constraints(files[name])
                IN  [validated_schedule |-> annotate(files[name], found.details),
                     total_unique_courses_violating |-> Cardinality(found.violating_ids)]]]

\* the validation reports that glob('batch_*/validation_report_*.json') finds
batch_reports(dir) ==
    {name \in DOMAIN dir.validation_output : StartsWith(name, BatchPrefix)}

\* the sum of an integer-valued function over a set of its arguments
RECURSIVE SumOver(_, _)
SumOver(f, S) ==
    IF S = {} THEN 0 ELSE LET e == CHOOSE e \in S : TRUE IN f[e] + SumOver(f, S \ {e})

\* is_schedule_fully_fixed; before it, a faulty variant that tolerates one
\* violating course
is_fixed_on_one_violation(dir) ==
    /\ batch_reports(dir) # {}
    /\ SumOver([name \in batch_reports(dir) |->
                   dir.validation_output[name].total_unique_courses_violating],
               batch_reports(dir)) <= 1
\* a variant that also counts the report of the consolidated file
is_fixed_with_consolidated(dir) ==
    /\ batch_reports(dir) # {}
    /\ SumOver([name \in DOMAIN dir.validation_output |->
                   dir.validation_output[name].total_unique_courses_violating],
               DOMAIN dir.validation_output) = 0

is_schedule_fully_fixed(dir) ==
    /\ batch_reports(dir) # {}
    /\ SumOver([name \in batch_reports(dir) |->
                   dir.validation_output[name].total_unique_courses_violating],
               batch_reports(dir)) = 0

\* get_batch_file_count; before it, a faulty variant that counts the
\* consolidated file instead of the batch files
get_consolidated_file_count(dir) == Cardinality(DOMAIN dir.consolidated)
get_batch_file_count(dir) ==
    Cardinality({name \in DOMAIN dir.working_schedules : StartsWith(name, BatchPrefix)})

\* the answer of the Proposer for a course the generator's response omits
Omitted == [omitted |-> TRUE]

\* GeneratorAgent.run: the generator's output directory.  resp maps every batch
\* file to the Proposer's answer: ok (a response with 'schedules') and, for the id
\* of every course of the batch, its assignment in the response or Omitted
generator_run(batch_dir, resp) ==
    LET out(name) == BatchName(FileIndex(name))
        updated(name) ==
            MapSeq(batch_dir[name], LAMBDA c :
                IF "time_slot" \in DOMAIN resp[name].schedules[c["course_id"]]
                THEN Put(Put(c, "time_slot", resp[name].schedules[c["course_id"]].time_slot),
                         "room_id", resp[name].schedules[c["course_id"]].room_id)
                ELSE c)
        succeeded(name) == resp[name].ok
        files == SortedFiles(DOMAIN batch_dir)
    IN  [working_schedules |->
            [o \in {out(name) : name \in DOMAIN batch_dir} |->
                LET name == CHOOSE n \in DOMAIN batch_dir : out(n) = o
                IN  IF succeeded(name) THEN updated(name) ELSE batch_dir[name]],
         consolidated |->
            [n \in {ConsolidatedName} |->
                Flatten([f \in DOMAIN files |->
                    IF succeeded(files[f]) THEN updated(files[f]) ELSE <<>>])],
         validation_output |-> NoFiles]

\* the courses a Fixer pass works on
needs_fix(c) == "hard_violation_types" \in DOMAIN c /\ c["hard_violation_types"] # {}

\* fixer.py 108: the response is a fix
is_fix(resp) == HasTimeSlot(resp) /\ resp.time_slot # NO_FIX_FOUND

\* fixer.py 71-115: one course through a Fixer pass; resp is the Proposer's answer
fix_course(c, resp) ==
    IF ~needs_fix(c) THEN c
    ELSE IF is_fix(resp)
         THEN Pop(Put(Put(Put(c, "time_slot", resp.time_slot), "room_id", resp.room_id),
                      "fixed_by_llm_attempt", TRUE),
                  "hard_violation_types")
         ELSE Put(Put(c, "time_slot", Unassigned), "room_id", Unassigned)

\* the ids of the courses the Fixer asks the Proposer about
courses_to_fix(dir) ==
    UNION {{sch[j]["course_id"] : j \in {j \in DOMAIN sch : needs_fix(sch[j])}} :
           sch \in {dir.validation_output[name].validated_schedule : name \in batch_reports(dir)}}

\* FixerAgent.run: the fixer's output directory for the validated directory dir;
\* resp maps the id of every course to fix to the Proposer's answer; before it,
\* a variant that unassigns every course of a batch that has a course to fix
fixer_run_reset_batch(dir, resp) ==
    LET fixed(name) ==
            LET sch == dir.validation_output[name].validated_schedule
            IN  MapSeq(sch, LAMBDA c :
                    IF needs_fix(c) THEN fix_course(c, resp[c["course_id"]])
                    ELSE IF \E j \in DOMAIN sch : needs_fix(sch[j])
                         THEN Put(Put(c, "time_slot", Unassigned), "room_id", Unassigned)
                         ELSE c)
        names == SortedFiles(batch_reports(dir))
    IN  [working_schedules |-> [name \in batch_reports(dir) |-> fixed(name)],
         consolidated |->
            [n \in {ConsolidatedDebugName} |-> Flatten([f \in DOMAIN names |-> fixed(names[f])])],
         validation_output |-> NoFiles]
fixer_run(dir, resp) ==
    LET fixed(name) ==
            MapSeq(dir.validation_output[name].validated_schedule,
                   LAMBDA c : IF needs_fix(c) THEN fix_course(c, resp[c["course_id"]]) ELSE c)
        names == SortedFiles(batch_reports(dir))
    IN  [working_schedules |-> [name \in batch_reports(dir) |-> fixed(name)],
         consolidated |->
            [n \in {ConsolidatedDebugName} |-> Flatten([f \in DOMAIN names |-> fixed(names[f])])],
         validation_output |-> NoFiles]

\* run_merger: the merger's output directory
run_merger(dir) ==
    LET out == merge_directory(dir.working_schedules)
    IN  [working_schedules |-> out.working_schedules,
         consolidated |-> [n \in {ConsolidatedName} |-> out.consolidated],
         validation_output |-> NoFiles]

MAX_FIXER_ITERATIONS_PER_LEVEL == 2

\* controller.py 40: for i in range(n) has an iteration of index idx; before
\* it, a faulty variant with one iteration more
in_range_inclusive(idx, n) == idx <= n
in_range(idx, n) == idx < n

\* ------------------------------------------------------------------------
\* State
\* ------------------------------------------------------------------------

VARIABLES
    \* OptimizerAgent.run
    schedule,            \* validated_schedule_with_sc_score.json
    sc_report,           \* soft_validation_report.json
    opt_pc,              \* "start", "loop", "done"
    candidates,          \* the list of _identify_candidates
    item,                \* position of the loop in candidates
    schedule_map,        \* the working schedule, in insertion order
    response,            \* what the Proposer returned for the last candidate
    original_ts,         \* the pre-move time_slot of the last applied move
    original_room,       \* the pre-move room_id of the last applied move
    opt_log,             \* the last line logged: "accepted", "rejected", "none"
    optimized_count,
    optimized_schedule,  \* optimized_schedule.json
    \* ScheduleMerger.merge_directory
    mrg_pc,              \* "start", "done"
    input_dir,           \* the batch files of input_dir
    output_dir,          \* working_schedules and consolidated_schedule.json
    \* run_pipeline
    ctl_pc,              \* "generator", "validator", "fixer", "forced", "decide", "done"
    level,
    iteration,           \* i, the index of the fixer iteration
    is_level_fixed,
    batch_courses_dir,   \* BATCH_COURSES_DIR, written by run_dataprep_step
    current_schedule_dir,
    fixer_runs,          \* the Fixer passes of the current level
    validator_runs,      \* the validation passes of the current level
    merger_runs,         \* the Merger runs of the current level's end
    \* ScheduleValidator.validate_hard_constraints on its own
    val_pc,              \* "start", "done"
    val_schedule,        \* the schedule argument
    val_result,          \* (violating_ids, details)
    \* is_assigned and parse_time_slot on their own
    fn_pc,               \* "start", "is_assigned", "parse_time_slot"
    fn_value,            \* the argument
    fn_assigned,         \* the result of is_assigned
    fn_slot,             \* the result of parse_time_slot
    \* a processing step (gap calculation, cleaner, batcher) on its own
    proc_pc,             \* "start", "done"
    proc_input,          \* the argument of the step
    proc_output          \* what the step returns or writes

optvars == <<schedule, sc_report, opt_pc, candidates, item, schedule_map, response,
             original_ts, original_room, opt_log, optimized_count, optimized_schedule>>

mrgvars == <<mrg_pc, input_dir, output_dir>>

ctlvars == <<ctl_pc, level, iteration, is_level_fixed, batch_courses_dir, current_schedule_dir,
             fixer_runs, validator_runs, merger_runs>>

valvars == <<val_pc, val_schedule, val_result>>

fnvars == <<fn_pc, fn_value, fn_assigned, fn_slot>>

procvars == <<proc_pc, proc_input, proc_output>>

vars == <<optvars, mrgvars, ctlvars, valvars, fnvars, procvars>>

\* the components that a specification leaves idle
OptIdle ==
    /\ schedule = <<>>
    /\ sc_report = validate_soft_constraints(<<>>)
    /\ opt_pc = "idle"
    /\ candidates = <<>>
    /\ item = 1
    /\ schedule_map = <<>>
    /\ response = NoResponse
    /\ original_ts = None
    /\ original_room = None
    /\ opt_log = "none"
    /\ optimized_count = 0
    /\ optimized_schedule = <<>>

MrgIdle ==
    /\ mrg_pc = "idle"
    /\ input_dir = NoFiles
    /\ output_dir = [working_schedules |-> NoFiles, consolidated |-> <<>>]

ValIdle ==
    /\ val_pc = "idle"
    /\ val_schedule = <<>>
    /\ val_result = validate_hard_constraints(<<>>)

\* a JSON value with its Python type: None, a str (s) or an int (n)
NoneValue == [type |-> "none", s |-> <<>>, n |-> 0]
StrValue(str) == [type |-> "str", s |-> str, n |-> 0]
IntValue(num) == [type |-> "int", s |-> <<>>, n |-> num]

FnIdle ==
    /\ fn_pc = "idle"
    /\ fn_value = NoneValue
    /\ fn_assigned = FALSE
    /\ fn_slot = NoSlot

ProcIdle ==
    /\ proc_pc = "idle"
    /\ proc_input = <<>>
    /\ proc_output = <<>>

CtlIdle ==
    /\ ctl_pc = "idle"
    /\ level = 1
    /\ iteration = 0
    /\ is_level_fixed = FALSE
    /\ batch_courses_dir = NoFiles
    /\ current_schedule_dir = EmptyDir
    /\ fixer_runs = 0
    /\ validator_runs = 0
    /\ merger_runs = 0

\* ------------------------------------------------------------------------
\* The Proposer (external oracle): every call returns any of these
\* ------------------------------------------------------------------------

MaxPeriod == 3

Rooms == {R1, R2}

\* the slots the Proposer draws from: day 1, periods 1..MaxPeriod, and day 2 period 1
Slots == {SlotStr(1, p) : p \in 1 .. MaxPeriod} \cup {SlotStr(2, 1)}

\* the slots of the schedules the runs start from
InitSlots == {SlotStr(1, 1), SlotStr(1, 2), SlotStr(1, 3)}

\* a ScheduleAssignment: a placed assignment, the "<>" placeholder for either
\* field, an empty time_slot or a malformed time_slot
Assignments ==
    {[time_slot |-> ts, room_id |-> r] :
        ts \in Slots \cup {Unassigned, <<>>, <<"x">>}, r \in Rooms \cup {Unassigned}}

\* ------------------------------------------------------------------------
\* OptimizerAgent
\* ------------------------------------------------------------------------

\* the course of courses.json with an assignment, as the schedule files hold it
Placed(k, ts, r) == Put(Put(courses[k], "time_slot", ts), "room_id", r)

\* the courses of the schedule the optimizer is given
OptCourses == <<1, 2, 3>>

\* {c['course_id']: c for c in schedule}, as the list of its values
DictOf(cs) ==
    LET ids == Distinct(MapSeq(cs, LAMBDA c : c["course_id"]))
    IN  [i \in DOMAIN ids |->
            cs[CHOOSE j \in DOMAIN cs :
                   /\ cs[j]["course_id"] = ids[i]
                   /\ \A m \in DOMAIN cs : cs[m]["course_id"] = ids[i] => m <= j]]

\* schedule_map[cid][key] = v
SetField(smap, cid, key, v) ==
    [i \in DOMAIN smap |-> IF smap[i]["course_id"] = cid THEN Put(smap[i], key, v) ELSE smap[i]]

\* schedule_map[cid][key]
FieldOf(smap, cid, key) ==
    smap[CHOOSE i \in DOMAIN smap : smap[i]["course_id"] = cid][key]

\* the candidates: for every (instructor, day) of the gap details, the courses of
\* that instructor whose time_slot starts with "<day>-"
identify_candidates(sched, report) ==
    Flatten([g \in DOMAIN report.gap_details |->
        LET row == report.gap_details[g]
            relevant == SelectSeq(sched, LAMBDA c :
                            /\ PyStr(c["assigned_instructor"]) = PyStr(row.instructor_id)
                            /\ StartsWith(c["time_slot"], row.day \o <<"-">>))
        IN  [i \in DOMAIN relevant |->
                [course_id |-> relevant[i]["course_id"],
                 instructor_id |-> row.instructor_id, day |-> row.day, gap |-> row.gap]]])

\* optimizer.py 95: the response is a proposal
HasProposal(resp) == HasTimeSlot(resp)

\* lines 99-100: the tentative move
ApplyMove(smap, cid, resp) ==
    SetField(SetField(smap, cid, "time_slot", resp.time_slot), cid, "room_id", resp.room_id)

\* line 104: "if not violating_ids"; before it, a faulty variant that tolerates
\* one violating course
AcceptsOneViolation(violating_ids) == Cardinality(violating_ids) <= 1
Accepts(violating_ids) == violating_ids = {}

\* lines 108-109: the rollback; before it, two faulty variants that restore one
\* field only
RollbackSlotOnly(smap, cid, ts, room) == SetField(smap, cid, "time_slot", ts)
RollbackRoomOnly(smap, cid, ts, room) == SetField(smap, cid, "room_id", room)
Rollback(smap, cid, ts, room) ==
    SetField(SetField(smap, cid, "time_slot", ts), cid, "room_id", room)

\* the rooms the courses of the input schedule are in
InitRooms == <<{R1, R2}, {R1}, {R2}>>

\* the schedules a run starts from: every course in any starting slot and one of
\* its starting rooms, or without an assignment
InitSchedules ==
    LET choice(i) == {[time_slot |-> ts, room_id |-> r] : ts \in InitSlots, r \in InitRooms[i]}
                     \cup {[time_slot |-> Unassigned, room_id |-> Unassigned]}
        PickAll == {a \in [DOMAIN OptCourses -> UNION {choice(i) : i \in DOMAIN OptCourses}] :
                        \A i \in DOMAIN OptCourses : a[i] \in choice(i)}
    IN  {[i \in DOMAIN OptCourses |-> Placed(OptCourses[i], a[i].time_slot, a[i].room_id)] :
            a \in PickAll}

InitOpt ==
    /\ schedule \in InitSchedules
    /\ sc_report = validate_soft_constraints(schedule)
    /\ opt_pc = "start"
    /\ candidates = <<>>
    /\ item = 1
    /\ schedule_map = <<>>
    /\ response = NoResponse
    /\ original_ts = None
    /\ original_room = None
    /\ opt_log = "none"
    /\ optimized_count = 0
    /\ optimized_schedule = <<>>
    /\ MrgIdle
    /\ CtlIdle
    /\ ValIdle
    /\ FnIdle
    /\ ProcIdle

\* lines 55-64: load the data, identify the candidates, build schedule_map
OptLoad ==
    /\ opt_pc = "start"
    /\ candidates' = identify_candidates(schedule, sc_report)
    /\ schedule_map' = DictOf(schedule)
    /\ opt_pc' = "loop"
    /\ UNCHANGED <<schedule, sc_report, item, response, original_ts, original_room,
                   opt_log, optimized_count, optimized_schedule>>
    /\ UNCHANGED <<mrgvars, ctlvars, valvars, fnvars, procvars>>

\* lines 66-110: one candidate; the Proposer returns resp
OptCandidate(resp) ==
    /\ opt_pc = "loop"
    /\ item <= Len(candidates)
    /\ LET cid == candidates[item].course_id
           moved == ApplyMove(schedule_map, cid, resp)
           found == validate_hard_constraints(moved)
       IN  /\ response' = resp
           /\ item' = item + 1
           /\ IF HasProposal(resp)
              THEN /\ original_ts' = FieldOf(schedule_map, cid, "time_slot")
                   /\ original_room' = FieldOf(schedule_map, cid, "room_id")
                   /\ IF Accepts(found.violating_ids)
                      THEN /\ schedule_map' = moved
                           /\ opt_log' = "accepted"
                           /\ optimized_count' = optimized_count + 1
                      ELSE /\ schedule_map' = Rollback(moved, cid, original_ts', original_room')
                           /\ opt_log' = "rejected"
                           /\ UNCHANGED optimized_count
              ELSE UNCHANGED <<schedule_map, original_ts, original_room, opt_log,
                               optimized_count>>
    /\ UNCHANGED <<schedule, sc_report, opt_pc, candidates, optimized_schedule>>
    /\ UNCHANGED <<mrgvars, ctlvars, valvars, fnvars, procvars>>

\* lines 112-113: persist the working schedule
OptSave ==
    /\ opt_pc = "loop"
    /\ item > Len(candidates)
    /\ optimized_schedule' = schedule_map
    /\ opt_pc' = "done"
    /\ UNCHANGED <<schedule, sc_report, candidates, item, schedule_map, response,
                   original_ts, original_room, opt_log, optimized_count>>
    /\ UNCHANGED <<mrgvars, ctlvars, valvars, fnvars, procvars>>

NextOpt ==
    \/ OptLoad
    \/ \E resp \in Assignments \cup {NoResponse} : OptCandidate(resp)
    \/ OptSave

SpecOpt == InitOpt /\ [][NextOpt]_vars

\* ------------------------------------------------------------------------
\* ScheduleMerger.merge_directory on its own
\* ------------------------------------------------------------------------

MaxFiles == 11

\* a course of a batch file, with the flags a Fixer pass can leave on it
\* (0 none, 1 hard_violation_types, 2 fixed_by_llm_attempt, 3 both)
FileCourse(idx, n, flags) ==
    LET c == [course_id |-> <<"K">> \o IntStr(idx) \o <<"-">> \o IntStr(n),
              assigned_instructor |-> I1,
              time_slot |-> IF flags = 1 THEN Unassigned ELSE SlotStr(1, idx),
              room_id |-> IF flags = 1 THEN Unassigned ELSE R1]
        c1 == IF flags \in {1, 3} THEN Put(c, "hard_violation_types", {"Room Conflict"}) ELSE c
    IN  IF flags \in {2, 3} THEN Put(c1, "fixed_by_llm_attempt", TRUE) ELSE c1

\* the input directories: batch_1.json .. batch_n.json, every file with one
\* course and the second one with two; the courses of one file may carry flags
InputDirs ==
    {[name \in {BatchName(k) : k \in 1 .. n} |->
        LET k == FileIndex(name)
            fl == IF k = flagged THEN flags ELSE 0
        IN  IF k = 2 THEN <<FileCourse(k, 1, fl), FileCourse(k, 2, 0)>>
            ELSE <<FileCourse(k, 1, fl)>>] :
     n \in 1 .. MaxFiles, flagged \in 0 .. MaxFiles, flags \in 1 .. 3}

InitMerge ==
    /\ mrg_pc = "start"
    /\ input_dir \in InputDirs
    /\ output_dir = [working_schedules |-> NoFiles, consolidated |-> <<>>]
    /\ OptIdle
    /\ CtlIdle
    /\ ValIdle
    /\ FnIdle
    /\ ProcIdle

MergeRun ==
    /\ mrg_pc = "start"
    /\ output_dir' = merge_directory(input_dir)
    /\ mrg_pc' = "done"
    /\ UNCHANGED <<input_dir, optvars, ctlvars, valvars, fnvars, procvars>>

NextMerge == MergeRun

SpecMerge == InitMerge /\ [][NextMerge]_vars

\* ------------------------------------------------------------------------
\* run_pipeline: the hard-constraint phase
\* ------------------------------------------------------------------------

MaxBatchSize == 3

\* the levels are numbered up to MaxLevel
MaxLevel == 3

\* the courses of courses.json that the pipeline schedules
CtlCourses == <<courses[2], courses[3], courses[4]>>

\* the slots the Proposer draws from in the repair phase
CtlSlots == {SlotStr(1, 1), SlotStr(1, 2)}

CtlAssignments == {[time_slot |-> ts, room_id |-> r] : ts \in CtlSlots, r \in Rooms}

\* the answers of the Proposer to the generator for one batch file
GeneratorResponses(batch) ==
    {[ok |-> FALSE, schedules |-> [cid \in IdsOf(batch) |-> Omitted]]}
    \cup {[ok |-> TRUE, schedules |-> a] : a \in [IdsOf(batch) -> CtlAssignments \cup {Omitted}]}

\* the answers of the Proposer to the fixer for one course
FixerResponses ==
    CtlAssignments \cup {NoResponse, [time_slot |-> NO_FIX_FOUND, room_id |-> Unassigned]}

InitCtl ==
    /\ ctl_pc = "generator"
    /\ level = 1
    /\ iteration = 0
    /\ is_level_fixed = FALSE
    /\ batch_courses_dir \in {prepare_initial_batches(CtlCourses, instructors, bs) : bs \in 1 .. MaxBatchSize}
    /\ current_schedule_dir = EmptyDir
    /\ fixer_runs = 0
    /\ validator_runs = 0
    /\ merger_runs = 0
    /\ OptIdle
    /\ MrgIdle
    /\ ValIdle
    /\ FnIdle
    /\ ProcIdle

\* controller.py 34: run_generator
CtlGenerator ==
    /\ ctl_pc = "generator"
    /\ \E resp \in [DOMAIN batch_courses_dir ->
                       UNION {GeneratorResponses(batch_courses_dir[n]) : n \in DOMAIN batch_courses_dir}] :
          /\ \A n \in DOMAIN batch_courses_dir : resp[n] \in GeneratorResponses(batch_courses_dir[n])
          /\ current_schedule_dir' = generator_run(batch_courses_dir, resp)
    /\ ctl_pc' = "validator"
    /\ UNCHANGED <<level, iteration, is_level_fixed, batch_courses_dir, fixer_runs, validator_runs,
                   merger_runs, optvars, mrgvars,
                   valvars, fnvars, procvars>>

\* controller.py 43-47: the validation pass of iteration i and the FIXED test
CtlValidator ==
    /\ ctl_pc = "validator"
    /\ in_range(iteration, MAX_FIXER_ITERATIONS_PER_LEVEL)
    /\ current_schedule_dir' = run_validator(current_schedule_dir)
    /\ validator_runs' = validator_runs + 1
    /\ IF is_schedule_fully_fixed(current_schedule_dir')
       THEN is_level_fixed' = TRUE /\ ctl_pc' = "decide"
       ELSE is_level_fixed' = FALSE /\ ctl_pc' = "fixer"
    /\ UNCHANGED <<level, iteration, batch_courses_dir, fixer_runs, merger_runs, optvars, mrgvars,
                   valvars, fnvars, procvars>>

\* controller.py 48: run_fixer, then the next iteration or the end of the loop
CtlFixer ==
    /\ ctl_pc = "fixer"
    /\ \E resp \in [courses_to_fix(current_schedule_dir) -> FixerResponses] :
          current_schedule_dir' = fixer_run(current_schedule_dir, resp)
    /\ fixer_runs' = fixer_runs + 1
    /\ iteration' = iteration + 1
    /\ ctl_pc' = IF in_range(iteration + 1, MAX_FIXER_ITERATIONS_PER_LEVEL)
                 THEN "validator" ELSE "forced"
    /\ UNCHANGED <<level, is_level_fixed, batch_courses_dir, validator_runs, merger_runs,
                   optvars, mrgvars,
                   valvars, fnvars, procvars>>

\* controller.py 50-52: the budget is exhausted, one more validation pass
CtlForcedValidator ==
    /\ ctl_pc = "forced"
    /\ ~is_level_fixed
    /\ current_schedule_dir' = run_validator(current_schedule_dir)
    /\ validator_runs' = validator_runs + 1
    /\ ctl_pc' = "decide"
    /\ UNCHANGED <<level, iteration, is_level_fixed, batch_courses_dir, fixer_runs, merger_runs,
                   optvars, mrgvars,
                   valvars, fnvars, procvars>>

\* controller.py 54-56: at most one batch is left
CtlDone ==
    /\ ctl_pc = "decide"
    /\ get_batch_file_count(current_schedule_dir) <= 1
    /\ ctl_pc' = "done"
    /\ UNCHANGED <<level, iteration, is_level_fixed, batch_courses_dir, current_schedule_dir,
                   fixer_runs, validator_runs, merger_runs, optvars, mrgvars,
                   valvars, fnvars, procvars>>

\* controller.py 58-60: merge and start the next level
CtlMerger ==
    /\ ctl_pc = "decide"
    /\ get_batch_file_count(current_schedule_dir) > 1
    /\ level < MaxLevel
    /\ current_schedule_dir' = run_merger(current_schedule_dir)
    /\ merger_runs' = merger_runs + 1
    /\ level' = level + 1
    /\ iteration' = 0
    /\ is_level_fixed' = FALSE
    /\ fixer_runs' = 0
    /\ validator_runs' = 0
    /\ ctl_pc' = "validator"
    /\ UNCHANGED <<batch_courses_dir, optvars, mrgvars,
                   valvars, fnvars, procvars>>

NextCtl ==
    \/ CtlGenerator
    \/ CtlValidator
    \/ CtlFixer
    \/ CtlForcedValidator
    \/ CtlDone
    \/ CtlMerger

SpecCtl == InitCtl /\ [][NextCtl]_vars

\* the controller has a next step: the guards of the actions of NextCtl
CtlCanStep ==
    \/ ctl_pc \in {"generator", "fixer", "forced"}
    \/ ctl_pc = "validator" /\ in_range(iteration, MAX_FIXER_ITERATIONS_PER_LEVEL)
    \/ ctl_pc = "decide" /\ (get_batch_file_count(current_schedule_dir) <= 1 \/ level < MaxLevel)

\* a step of the controller: every action of NextCtl moves ctl_pc
CtlProgress ==
    /\ CtlCanStep
    /\ ctl_pc' \in {"generator", "validator", "fixer", "forced", "decide", "done"}
    /\ ctl_pc' # ctl_pc

\* run_pipeline is one sequential program: while it has a next step, it takes it
SpecCtlFair == SpecCtl /\ WF_ctl_pc(CtlProgress)

\* ------------------------------------------------------------------------
\* ScheduleValidator.validate_hard_constraints on the schedules of a bounded set
\* ------------------------------------------------------------------------

MaxValPeriod == 1

\* the courses of courses.json in the schedule: A-1, A-2 (instructor I1) and
\* B-1, B-2 (instructor I2)
ValCourses == <<1, 2, 3, 5>>

\* the time_slot values of a schedule file: day 1, periods 1..MaxValPeriod,
\* day 2 period 1, and the empty string
ValSlots == {SlotStr(1, p) : p \in 1 .. MaxValPeriod} \cup {SlotStr(2, 1), <<>>}

\* the room_id values of a schedule file: a room or the empty string
ValRooms == Rooms \cup {<<>>}

\* the assignments of one course: any time_slot with any room_id, or the
\* "<>" placeholder in both fields
ValAssignments ==
    {[time_slot |-> ts, room_id |-> r] : ts \in ValSlots, r \in ValRooms}
    \cup {[time_slot |-> Unassigned, room_id |-> Unassigned]}

ValSchedules ==
    {[i \in DOMAIN ValCourses |-> Placed(ValCourses[i], a[i].time_slot, a[i].room_id)] :
        a \in [DOMAIN ValCourses -> ValAssignments]}

InitVal ==
    /\ val_pc = "start"
    /\ val_schedule \in ValSchedules
    /\ val_result = validate_hard_constraints(<<>>)
    /\ OptIdle
    /\ MrgIdle
    /\ CtlIdle
    /\ FnIdle
    /\ ProcIdle

ValRun ==
    /\ val_pc = "start"
    /\ val_result' = validate_hard_constraints(val_schedule)
    /\ val_pc' = "done"
    /\ UNCHANGED <<val_schedule, optvars, mrgvars, ctlvars, fnvars, procvars>>

\* a second validation pass on the same schedule, as run_validator does it: the
\* caller annotates the schedule with the details of the pass before, then
\* validates again
ValAgain ==
    /\ val_pc = "done"
    /\ val_schedule' = annotate(val_schedule, val_result.details)
    /\ val_result' = validate_hard_constraints(val_schedule')
    /\ val_pc' = "again"
    /\ UNCHANGED <<optvars, mrgvars, ctlvars, fnvars, procvars>>

NextVal == ValRun \/ ValAgain

SpecVal == InitVal /\ [][NextVal]_vars

\* ------------------------------------------------------------------------
\* is_assigned and parse_time_slot on the values of a bounded set
\* ------------------------------------------------------------------------

MaxPad == 2
MaxStrLen == 4

\* isinstance(value, str) in is_assigned: a non-string that is not None is assigned
is_assigned_value(x) ==
    IF x.type = "none" THEN is_assigned(None)
    ELSE IF x.type = "str" THEN is_assigned(x.s)
    ELSE TRUE

\* isinstance(time_slot_str, str) in parse_time_slot
parse_time_slot_value(x) ==
    IF x.type # "str" THEN NoSlot ELSE parse_time_slot(x.s)

\* the strings of at most n characters of alphabet
RECURSIVE StringsUpTo(_, _)
StringsUpTo(alphabet, n) ==
    IF n = 0 THEN {<<>>}
    ELSE LET shorter == StringsUpTo(alphabet, n - 1)
         IN  shorter \cup {Append(t, ch) : t \in shorter, ch \in alphabet}

FnPads == StringsUpTo(Whitespace, MaxPad)

\* sentinels in several letter cases, fragments of sentinels, ids and slots
FnWords ==
    {<<>>, Unassigned, <<"N", "o", "n", "e">>, <<"n", "o", "n", "e">>,
     <<"N", "O", "N", "E">>, <<"n", "O", "n", "e">>, <<"n", "u", "l", "l">>,
     <<"N", "o", " ", "n", "e">>, <<"<", " ", ">">>, <<"<">>, R1, SlotStr(1, 1),
     SlotStr(2, 4), <<"a", "b", "c">>, <<"2">>, SlotStr(12, 10),
     <<"2", "-", "-", "4">>, <<"-", "2", "-", "4">>, <<"+", "2", "-", "+", "4">>,
     <<"0", "2", "-", "0", "4">>, <<"2", "-", "4", "-", "1">>, <<"2", ".", "0", "-", "4">>}

FnAlphabet == {"2", "4", "-", " ", "a"}

FnStrings ==
    {l \o w \o r : l \in FnPads, w \in FnWords, r \in FnPads}
    \cup StringsUpTo(FnAlphabet, MaxStrLen)

FnValues ==
    {NoneValue} \cup {IntValue(n) : n \in {0, 1, 24}} \cup {StrValue(str) : str \in FnStrings}

InitFn ==
    /\ fn_pc = "start"
    /\ fn_value \in FnValues
    /\ fn_assigned = FALSE
    /\ fn_slot = NoSlot
    /\ OptIdle
    /\ MrgIdle
    /\ CtlIdle
    /\ ValIdle
    /\ ProcIdle

FnIsAssigned ==
    /\ fn_pc = "start"
    /\ fn_assigned' = is_assigned_value(fn_value)
    /\ fn_pc' = "is_assigned"
    /\ UNCHANGED <<fn_value, fn_slot, optvars, mrgvars, ctlvars, valvars, procvars>>

FnParseTimeSlot ==
    /\ fn_pc = "start"
    /\ fn_slot' = parse_time_slot_value(fn_value)
    /\ fn_pc' = "parse_time_slot"
    /\ UNCHANGED <<fn_value, fn_assigned, optvars, mrgvars, ctlvars, valvars, procvars>>

NextFn == FnIsAssigned \/ FnParseTimeSlot

SpecFn == InitFn /\ [][NextFn]_vars

\* ------------------------------------------------------------------------
\* SoftConstraintRules.calculate_instructor_gaps on the instructor schedules
\* of a bounded set
\* ------------------------------------------------------------------------

MaxGapPeriod == 4
MaxGapSlots == 3

\* the time_slot values of an instructor: days 1 and 2, periods
\* 1..MaxGapPeriod, and a text that is no slot
GapSlots == {SlotStr(d, p) : d \in 1 .. 2, p \in 1 .. MaxGapPeriod} \cup {<<"x">>}

RECURSIVE ListsUpTo(_, _)
ListsUpTo(values, n) ==
    IF n = 0 THEN {<<>>}
    ELSE LET shorter == ListsUpTo(values, n - 1)
         IN  shorter \cup {Append(t, v) : t \in shorter, v \in values}

\* inst_sched of validate_soft_constraints: I1 with one to MaxGapSlots time
\* slots, in any order and with repetitions, and I2 with none (no key), two
\* or three
GapSchedules ==
    {<<[instructor_id |-> I1, time_slots |-> t]>> \o u :
        t \in ListsUpTo(GapSlots, MaxGapSlots) \ {<<>>},
        u \in {<<>>,
               <<[instructor_id |-> I2, time_slots |-> <<SlotStr(1, 3), SlotStr(1, 1)>>]>>,
               <<[instructor_id |-> I2,
                  time_slots |-> <<SlotStr(2, 1), SlotStr(1, 2), SlotStr(2, 2)>>]>>}}

\* (total_penalty, details) of calculate_instructor_gaps
instructor_gaps(instructor_schedule) ==
    LET gap_details == calculate_instructor_gaps(instructor_schedule)
    IN  [total_penalty |-> SumSeq(MapSeq(gap_details, LAMBDA r : r.gap)),
         details |-> gap_details]

InitGap ==
    /\ proc_pc = "start"
    /\ proc_input \in GapSchedules
    /\ proc_output = <<>>
    /\ OptIdle
    /\ MrgIdle
    /\ CtlIdle
    /\ ValIdle
    /\ FnIdle

GapRun ==
    /\ proc_pc = "start"
    /\ proc_output' = instructor_gaps(proc_input)
    /\ proc_pc' = "done"
    /\ UNCHANGED <<proc_input, optvars, mrgvars, ctlvars, valvars, fnvars>>

NextGap == GapRun

SpecGap == InitGap /\ [][NextGap]_vars

\* ------------------------------------------------------------------------
\* ScheduleCleaner.clean_and_analyze on the consolidated schedules of a
\* bounded set
\* ------------------------------------------------------------------------

MaxCleanCourses == 3

\* c.get('hard_violation_types') is truthy: the key is there with a kind
is_unsolved(c) == "hard_violation_types" \in DOMAIN c /\ c["hard_violation_types"] # {}

\* cleaner.py 26-27: what a clean course loses; before it, a variant that
\* keeps fixed_by_llm_attempt
strip_annotations_keep_marker(c) == Pop(c, "hard_violation_types")
strip_annotations(c) == Pop(Pop(c, "hard_violation_types"), "fixed_by_llm_attempt")

\* cleaner.py 18-36: the two files written and the two counts returned
clean_and_analyze(full_schedule) ==
    LET clean == MapSeq(SelectSeq(full_schedule, LAMBDA c : ~is_unsolved(c)), strip_annotations)
        unsolved == SelectSeq(full_schedule, is_unsolved)
    IN  [clean |-> clean, unsolved |-> unsolved,
         clean_count |-> Len(clean), unsolved_count |-> Len(unsolved)]

\* the annotations a course of a validated consolidated schedule may carry:
\* hard_violation_types absent, empty, or with one or two kinds
CleanAnnotations == {{}, {"Room Conflict"}, {"Room Conflict", "Room Type"}}

\* course k of courses.json, placed, with every combination of annotations
CleanEntries(k) ==
    LET c == Placed(k, SlotStr(1, k), R1)
        marked == {c, Put(c, "fixed_by_llm_attempt", TRUE)}
    IN  marked \cup {Put(m, "hard_violation_types", a) : m \in marked, a \in CleanAnnotations}

\* the consolidated schedules of the first n courses
RECURSIVE CleanSchedulesOf(_)
CleanSchedulesOf(n) ==
    IF n = 0 THEN {<<>>}
    ELSE {Append(sched, e) : sched \in CleanSchedulesOf(n - 1), e \in CleanEntries(n)}

CleanSchedules == UNION {CleanSchedulesOf(n) : n \in 0 .. MaxCleanCourses}

InitClean ==
    /\ proc_pc = "start"
    /\ proc_input \in CleanSchedules
    /\ proc_output = <<>>
    /\ OptIdle
    /\ MrgIdle
    /\ CtlIdle
    /\ ValIdle
    /\ FnIdle

CleanRun ==
    /\ proc_pc = "start"
    /\ proc_output' = clean_and_analyze(proc_input)
    /\ proc_pc' = "done"
    /\ UNCHANGED <<proc_input, optvars, mrgvars, ctlvars, valvars, fnvars>>

NextClean == CleanRun

SpecClean == InitClean /\ [][NextClean]_vars

\* ------------------------------------------------------------------------
\* The batch processor (batcher.py): the initial batches of the data
\* preparation and the batches of the rebatcher
\* ------------------------------------------------------------------------

\* the course lists hold at most MaxBatchCourses entries
MaxBatchCourses == 4

\* batcher.py 63: chunk b of the flat schedule; before it, a variant that
\* resets the assignments as the initial batching does
rebatch_chunk_reset(clean_schedule, b, batch_size) ==
    MapSeq(SubSeq(clean_schedule, (b - 1) * batch_size + 1,
                  IF b * batch_size <= Len(clean_schedule) THEN b * batch_size
                  ELSE Len(clean_schedule)),
           reset_assignment)
rebatch_chunk(clean_schedule, b, batch_size) ==
    SubSeq(clean_schedule, (b - 1) * batch_size + 1,
           IF b * batch_size <= Len(clean_schedule) THEN b * batch_size
           ELSE Len(clean_schedule))

\* rebatch_schedule: the new output directory, with consolidated_schedule.json
\* and one batch_<n>.json per start index of range(0, len, BATCH_SIZE)
rebatch_schedule(clean_schedule, batch_size) ==
    LET starts == {i \in 0 .. Len(clean_schedule) - 1 : i % batch_size = 0}
    IN  [working_schedules |->
             [name \in {BatchName((i \div batch_size) + 1) : i \in starts} |->
                 rebatch_chunk(clean_schedule, FileIndex(name), batch_size)],
         consolidated |-> clean_schedule]

\* the entries of the course lists: with and without num_students, with equal
\* num_students, placed, unplaced and without time_slot and room_id
BatchEntries ==
    { courses[1],
      Placed(2, SlotStr(1, 1), R1),
      Placed(3, Unassigned, Unassigned),
      [course_id |-> <<"D", "-", "1">>, assigned_instructor |-> I1,
       time_slot |-> SlotStr(2, 1), room_id |-> R2],
      [course_id |-> <<"E", "-", "1">>, num_students |-> 30, assigned_instructor |-> I2,
       time_slot |-> SlotStr(1, 2), room_id |-> R2] }

InitBatch ==
    /\ proc_pc = "start"
    /\ proc_input \in [courses : ListsUpTo(BatchEntries, MaxBatchCourses),
                       instructors : {<<>>, instructors},
                       batch_size : 1 .. MaxBatchSize]
    /\ proc_output = <<>>
    /\ OptIdle
    /\ MrgIdle
    /\ CtlIdle
    /\ ValIdle
    /\ FnIdle

\* run_dataprep_step on courses.json and instructors.json
BatchPrepare ==
    /\ proc_pc = "start"
    /\ proc_output' = prepare_initial_batches(proc_input.courses, proc_input.instructors,
                                              proc_input.batch_size)
    /\ proc_pc' = "prepared"
    /\ UNCHANGED <<proc_input, optvars, mrgvars, ctlvars, valvars, fnvars>>

\* run_rebatcher on the clean schedule
BatchRebatch ==
    /\ proc_pc = "start"
    /\ proc_output' = rebatch_schedule(proc_input.courses, proc_input.batch_size)
    /\ proc_pc' = "rebatched"
    /\ UNCHANGED <<proc_input, optvars, mrgvars, ctlvars, valvars, fnvars>>

NextBatch == BatchPrepare \/ BatchRebatch

SpecBatch == InitBatch /\ [][NextBatch]_vars

\* ------------------------------------------------------------------------
\* One pass of the Fixer and of the Optimizer, call by call (fixer.py 46-124,
\* optimizer.py 55-113, BaseAgent.call_llm)
\* ------------------------------------------------------------------------

\* config.py 24
MAX_RETRIES == 3

\* the Proposer fails at most MaxFailures times in a row
MaxFailures == 4

\* call_llm: the attempts 0 .. MAX_RETRIES - 1 are made in order, the first
\* `failures` of them raise, and the first that does not returns the answer;
\* before it, a variant that tries until an answer comes
call_llm_until_answered(configured, failures, answer) ==
    IF ~configured THEN [response |-> NoResponse, attempts |-> 0]
    ELSE [response |-> answer, attempts |-> failures + 1]
call_llm(configured, failures, answer) ==
    IF ~configured THEN [response |-> NoResponse, attempts |-> 0]
    ELSE LET returning == {attempt \in 0 .. MAX_RETRIES - 1 : attempt >= failures}
         IN  IF returning = {} THEN [response |-> NoResponse, attempts |-> MAX_RETRIES]
             ELSE [response |-> answer,
                   attempts |-> 1 + CHOOSE attempt \in returning :
                                       \A other \in returning : attempt <= other]

\* fixer.py 65: the ids of the courses to fix of a batch, in the order of the batch
batch_courses_to_fix(global_schedule, c_ids) ==
    SelectSeq(c_ids, LAMBDA cid :
        \E i \in DOMAIN global_schedule :
            global_schedule[i]["course_id"] = cid /\ needs_fix(global_schedule[i]))

\* fixer.py 71-73: the courses to fix lose their assignment
unassign(global_schedule, todo) ==
    MapSeq(global_schedule, LAMBDA c :
        IF c["course_id"] \in Range(todo) THEN reset_assignment(c) ELSE c)

\* fixer.py 108-115: the counters of the batch after a response; before it, a
\* variant that counts every response as a fix
count_outcome_always_fixed(batch_metrics, resp) ==
    [batch_metrics EXCEPT !.fixed_count = @ + 1]
count_outcome(batch_metrics, resp) ==
    IF is_fix(resp) THEN [batch_metrics EXCEPT !.fixed_count = @ + 1]
    ELSE [batch_metrics EXCEPT !.failed_count = @ + 1]

\* optimizer.py 95-110: one candidate with the Proposer's response
optimize_candidate(smap, cid, resp) ==
    IF ~HasProposal(resp) THEN smap
    ELSE LET moved == ApplyMove(smap, cid, resp)
         IN  IF Accepts(validate_hard_constraints(moved).violating_ids) THEN moved
             ELSE Rollback(moved, cid, FieldOf(smap, cid, "time_slot"),
                           FieldOf(smap, cid, "room_id"))

\* what a validated course of the Fixer's input is: placed and tagged, placed
\* and clean, or unplaced
PassEntries(k) ==
    { Put(Placed(k, SlotStr(1, 1), R1), "hard_violation_types", {"Room Conflict"}),
      Placed(k, SlotStr(1, 2), R2),
      Placed(k, Unassigned, Unassigned) }

\* the validated batches of the Fixer: the courses of the pipeline in batches
\* of one to MaxBatchSize
PassBatches ==
    LET n == Len(CtlCourses)
        lists == {l \in [1 .. n -> UNION {PassEntries(k + 1) : k \in 1 .. n}] :
                     \A k \in 1 .. n : l[k] \in PassEntries(k + 1)}
        cut(l, size) == [b \in 1 .. ((n + size - 1) \div size) |->
                            rebatch_chunk(l, b, size)]
    IN  {cut(l, size) : l \in lists, size \in 1 .. MaxBatchSize}

\* the answers the Proposer gives in a pass
PassAnswers ==
    {[time_slot |-> SlotStr(1, 3), room_id |-> R1],
     [time_slot |-> NO_FIX_FOUND, room_id |-> Unassigned],
     [time_slot |-> <<>>, room_id |-> R1]}

InitPass ==
    /\ proc_pc = "start"
    /\ proc_input \in
          {[agent |-> "fixer", configured |-> conf, batches |-> b] :
              conf \in BOOLEAN, b \in PassBatches}
          \cup {[agent |-> "optimizer", configured |-> conf, schedule |-> sch,
                 sc_report |-> validate_soft_constraints(sch)] :
                    conf \in BOOLEAN, sch \in InitSchedules}
    /\ proc_output = <<>>
    /\ OptIdle
    /\ MrgIdle
    /\ CtlIdle
    /\ ValIdle
    /\ FnIdle

\* fixer.py 46-58: global_schedule and batch_map
PassFixerLoad ==
    /\ proc_pc = "start"
    /\ proc_input.agent = "fixer"
    /\ proc_output' = [global_schedule |-> DictOf(Flatten(proc_input.batches)),
                       batch |-> 1, todo |-> <<>>, position |-> 1, calls |-> <<>>,
                       batch_metrics |-> [fixed_count |-> 0, failed_count |-> 0],
                       report_data |-> <<>>]
    /\ proc_pc' = "scan"
    /\ UNCHANGED <<proc_input, optvars, mrgvars, ctlvars, valvars, fnvars>>

\* fixer.py 60-73: the next batch, its courses to fix and their placeholders
PassFixerScan ==
    /\ proc_pc = "scan"
    /\ proc_output.batch <= Len(proc_input.batches)
    /\ LET c_ids == MapSeq(proc_input.batches[proc_output.batch], LAMBDA c : c["course_id"])
           todo == batch_courses_to_fix(proc_output.global_schedule, c_ids)
       IN  proc_output' = [proc_output EXCEPT
                              !.todo = todo,
                              !.position = 1,
                              !.batch_metrics = [fixed_count |-> 0, failed_count |-> 0],
                              !.global_schedule = unassign(proc_output.global_schedule, todo)]
    /\ proc_pc' = "call"
    /\ UNCHANGED <<proc_input, optvars, mrgvars, ctlvars, valvars, fnvars>>

\* fixer.py 75-115: one course to fix: the call and what its response does
PassFixerCall(failures, answer) ==
    /\ proc_pc = "call"
    /\ proc_input.agent = "fixer"
    /\ proc_output.position <= Len(proc_output.todo)
    /\ LET cid == proc_output.todo[proc_output.position]
           called == call_llm(proc_input.configured, failures, answer)
       IN  proc_output' = [proc_output EXCEPT
                              !.calls = Append(@, [course_id |-> cid,
                                                   attempts |-> called.attempts,
                                                   response |-> called.response]),
                              !.position = @ + 1,
                              !.batch_metrics = count_outcome(@, called.response),
                              !.global_schedule = MapSeq(@, LAMBDA c :
                                  IF c["course_id"] = cid
                                  THEN fix_course(c, called.response) ELSE c)]
    /\ UNCHANGED <<proc_pc, proc_input, optvars, mrgvars, ctlvars, valvars, fnvars>>

\* fixer.py 117: the batch is through
PassFixerNext ==
    /\ proc_pc = "call"
    /\ proc_input.agent = "fixer"
    /\ proc_output.position > Len(proc_output.todo)
    /\ proc_output' = [proc_output EXCEPT
                          !.batch = @ + 1,
                          !.report_data = Append(@, proc_output.batch_metrics)]
    /\ proc_pc' = "scan"
    /\ UNCHANGED <<proc_input, optvars, mrgvars, ctlvars, valvars, fnvars>>

\* fixer.py 119-125: the batches are written
PassFixerSave ==
    /\ proc_pc = "scan"
    /\ proc_output.batch > Len(proc_input.batches)
    /\ proc_pc' = "done"
    /\ UNCHANGED <<proc_input, proc_output, optvars, mrgvars, ctlvars, valvars, fnvars>>

\* optimizer.py 55-64: the candidates and schedule_map
PassOptimizerLoad ==
    /\ proc_pc = "start"
    /\ proc_input.agent = "optimizer"
    /\ proc_output' =
          [global_schedule |-> DictOf(proc_input.schedule),
           todo |-> MapSeq(identify_candidates(proc_input.schedule, proc_input.sc_report),
                           LAMBDA cand : cand.course_id),
           position |-> 1, calls |-> <<>>]
    /\ proc_pc' = "call"
    /\ UNCHANGED <<proc_input, optvars, mrgvars, ctlvars, valvars, fnvars>>

\* optimizer.py 66-110: one candidate
PassOptimizerCall(failures, answer) ==
    /\ proc_pc = "call"
    /\ proc_input.agent = "optimizer"
    /\ proc_output.position <= Len(proc_output.todo)
    /\ LET cid == proc_output.todo[proc_output.position]
           called == call_llm(proc_input.configured, failures, answer)
       IN  proc_output' = [proc_output EXCEPT
                              !.calls = Append(@, [course_id |-> cid,
                                                   attempts |-> called.attempts,
                                                   response |-> called.response]),
                              !.position = @ + 1,
                              !.global_schedule = optimize_candidate(@, cid, called.response)]
    /\ UNCHANGED <<proc_pc, proc_input, optvars, mrgvars, ctlvars, valvars, fnvars>>

\* optimizer.py 112-115: the schedule is written
PassOptimizerSave ==
    /\ proc_pc = "call"
    /\ proc_input.agent = "optimizer"
    /\ proc_output.position > Len(proc_output.todo)
    /\ proc_pc' = "done"
    /\ UNCHANGED <<proc_input, proc_output, optvars, mrgvars, ctlvars, valvars, fnvars>>

NextPass ==
    \/ PassFixerLoad
    \/ PassFixerScan
    \/ \E failures \in 0 .. MaxFailures, answer \in PassAnswers : PassFixerCall(failures, answer)
    \/ PassFixerNext
    \/ PassFixerSave
    \/ PassOptimizerLoad
    \/ \E failures \in 0 .. MaxFailures, answer \in PassAnswers :
          PassOptimizerCall(failures, answer)
    \/ PassOptimizerSave

SpecPass == InitPass /\ [][NextPass]_vars

\* ------------------------------------------------------------------------
\* ScheduleValidator.validate_hard_constraints on schedules whose entries
\* carry time slots that do not parse and ids the static data does not hold
\* ------------------------------------------------------------------------

MaxRefCourses == 2

\* ids that are in none of the static files
I9 == <<"I", "9">>
R9 == <<"R", "9">>
Z9 == <<"Z", "-", "9">>

\* the courses an entry of the schedule is drawn from, by position: A-2 or B-1
\* given to the unknown instructor, then a course of I2 that courses.csv does
\* not hold or A-1, then C-1, then B-2
RefCourses ==
    << {courses[2], Put(courses[3], "assigned_instructor", I9)},
       {[course_id |-> Z9, assigned_instructor |-> I2, num_students |-> 99,
         required_room_type |-> Lab], courses[1]},
       {courses[4]},
       {courses[5]} >>

\* a slot of the grid, a slot without separator, a slot with a non-numeric part
RefSlots == {SlotStr(1, 1), <<"x">>, <<"1", "-", "x">>}

RefRooms == {R1, R2, R9}

\* the schedules of n entries, the entry of position k being a course of
\* RefCourses[k] with a slot and a room
RECURSIVE RefSchedulesOf(_)
RefSchedulesOf(n) ==
    IF n = 0 THEN {<<>>}
    ELSE {Append(sched, Put(Put(c, "time_slot", ts), "room_id", r)) :
            sched \in RefSchedulesOf(n - 1), c \in RefCourses[n], ts \in RefSlots, r \in RefRooms}

RefSchedules ==
    UNION {RefSchedulesOf(n) : n \in 0 .. IF MaxRefCourses <= Len(RefCourses)
                                           THEN MaxRefCourses ELSE Len(RefCourses)}

InitRef ==
    /\ proc_pc = "start"
    /\ proc_input \in RefSchedules
    /\ proc_output = <<>>
    /\ OptIdle
    /\ MrgIdle
    /\ CtlIdle
    /\ ValIdle
    /\ FnIdle

\* violating_ids, details = validator.validate_hard_constraints(schedule)
RefValidate ==
    /\ proc_pc = "start"
    /\ proc_output' = validate_hard_constraints(proc_input)
    /\ proc_pc' = "validated"
    /\ UNCHANGED <<proc_input, optvars, mrgvars, ctlvars, valvars, fnvars>>

NextRef == RefValidate

SpecRef == InitRef /\ [][NextRef]_vars

\* ------------------------------------------------------------------------
\* OptimizerAgent._identify_candidates on the soft report of the schedule
\* ------------------------------------------------------------------------

MaxCandCourses == 3

\* three courses of I1 and two of I2
CandCourses == <<1, 2, 4, 3, 5>>

\* slots of two days, one of them also with a leading blank, and no slot
CandSlots ==
    {SlotStr(1, 1), SlotStr(1, 2), SlotStr(1, 3), SlotStr(2, 1),
     <<" ">> \o SlotStr(1, 3), Unassigned}

\* the schedules of the first n courses, each with a slot of CandSlots
RECURSIVE CandSchedulesOf(_)
CandSchedulesOf(n) ==
    IF n = 0 THEN {<<>>}
    ELSE {Append(sched, Placed(CandCourses[n], ts, IF ts = Unassigned THEN Unassigned ELSE R1)) :
            sched \in CandSchedulesOf(n - 1), ts \in CandSlots}

CandSchedules ==
    UNION {CandSchedulesOf(n) : n \in 0 .. IF MaxCandCourses <= Len(CandCourses)
                                            THEN MaxCandCourses ELSE Len(CandCourses)}

InitCand ==
    /\ proc_pc = "start"
    /\ proc_input \in CandSchedules
    /\ proc_output = <<>>
    /\ OptIdle
    /\ MrgIdle
    /\ CtlIdle
    /\ ValIdle
    /\ FnIdle

\* steps.py 131-133 and optimizer.py 58: the soft report of the schedule and the
\* candidates read from it
CandIdentify ==
    /\ proc_pc = "start"
    /\ proc_output' = [sc_report |-> validate_soft_constraints(proc_input),
                       candidates |-> identify_candidates(proc_input,
                                          validate_soft_constraints(proc_input))]
    /\ proc_pc' = "identified"
    /\ UNCHANGED <<proc_input, optvars, mrgvars, ctlvars, valvars, fnvars>>

NextCand == CandIdentify

SpecCand == InitCand /\ [][NextCand]_vars

\* ------------------------------------------------------------------------
\* run_pipeline with a Fixer pass that may abort
\* ------------------------------------------------------------------------

\* fixer.py 39, 127-128: _load_static_data or any later statement raises, run
\* logs FATAL_ERROR and returns before any file is saved; run_fixer returns the
\* fresh, empty run directory
CtlFixerAbort ==
    /\ ctl_pc = "fixer"
    /\ current_schedule_dir' = EmptyDir
    /\ fixer_runs' = fixer_runs + 1
    /\ iteration' = iteration + 1
    /\ ctl_pc' = IF in_range(iteration + 1, MAX_FIXER_ITERATIONS_PER_LEVEL)
                 THEN "validator" ELSE "forced"
    /\ UNCHANGED <<level, is_level_fixed, batch_courses_dir, validator_runs, merger_runs,
                   optvars, mrgvars,
                   valvars, fnvars, procvars>>

NextCtlAbort ==
    \/ CtlGenerator
    \/ CtlValidator
    \/ CtlFixer
    \/ CtlFixerAbort
    \/ CtlForcedValidator
    \/ CtlDone
    \/ CtlMerger

SpecCtlAbort == InitCtl /\ [][NextCtlAbort]_vars

\* ------------------------------------------------------------------------
\* The hard validation of the batches of a level and of their merge
\* ------------------------------------------------------------------------

MaxMonoCourses == 3

\* two courses of I2, then two of I1
MonoCourses == <<3, 5, 2, 4>>

MonoAssignments ==
    {[time_slot |-> ts, room_id |-> r] :
        ts \in {SlotStr(1, 1), SlotStr(1, 2), SlotStr(2, 1)}, r \in {R1, R2}}
    \cup {[time_slot |-> Unassigned, room_id |-> Unassigned]}

\* the schedules of the first n courses
RECURSIVE MonoSchedulesOf(_)
MonoSchedulesOf(n) ==
    IF n = 0 THEN {<<>>}
    ELSE {Append(sched, Placed(MonoCourses[n], a.time_slot, a.room_id)) :
            sched \in MonoSchedulesOf(n - 1), a \in MonoAssignments}

\* the batch files batch_1.json, batch_2.json, ... of size courses each
MonoDir(sched, size) ==
    [name \in {BatchName(k) : k \in 1 .. ((Len(sched) + size - 1) \div size)} |->
        LET k == FileIndex(name)
        IN  SubSeq(sched, (k - 1) * size + 1,
                   IF k * size <= Len(sched) THEN k * size ELSE Len(sched))]

MonoDirs ==
    {MonoDir(sched, size) :
        sched \in UNION {MonoSchedulesOf(n) :
                            n \in 2 .. IF MaxMonoCourses <= Len(MonoCourses)
                                       THEN MaxMonoCourses ELSE Len(MonoCourses)},
        size \in 1 .. 2}

InitMono ==
    /\ proc_pc = "start"
    /\ proc_input \in MonoDirs
    /\ proc_output = <<>>
    /\ OptIdle
    /\ MrgIdle
    /\ CtlIdle
    /\ ValIdle
    /\ FnIdle

\* steps.py 57-66: the validation of every batch file of the level
MonoValidateSources ==
    /\ proc_pc = "start"
    /\ proc_output' = [sources |-> [name \in DOMAIN proc_input |->
                                       validate_hard_constraints(proc_input[name]).details]]
    /\ proc_pc' = "validated"
    /\ UNCHANGED <<proc_input, optvars, mrgvars, ctlvars, valvars, fnvars>>

\* controller.py 58-60, 43: the merge and the validation of the merged batches
MonoMergeAndValidate ==
    /\ proc_pc = "validated"
    /\ LET out == merge_directory(proc_input).working_schedules
       IN  proc_output' = [sources |-> proc_output.sources,
                           batches |-> out,
                           merged |-> [name \in DOMAIN out |->
                                          validate_hard_constraints(out[name]).details]]
    /\ proc_pc' = "merged"
    /\ UNCHANGED <<proc_input, optvars, mrgvars, ctlvars, valvars, fnvars>>

NextMono ==
    \/ MonoValidateSources
    \/ MonoMergeAndValidate

SpecMono == InitMono /\ [][NextMono]_vars

Spec == SpecOpt

\* ------------------------------------------------------------------------
\* Properties of the optimizer
\* ------------------------------------------------------------------------

HardValid(sched) == validate_hard_constraints(sched).violating_ids = {}

\* the working schedule with the proposal written over the candidate's assignment
WithProposal(smap, cid, resp) ==
    [i \in DOMAIN smap |->
        IF smap[i]["course_id"] = cid
        THEN [smap[i] EXCEPT !["time_slot"] = resp.time_slot, !["room_id"] = resp.room_id]
        ELSE smap[i]]

\* the gap penalty of a schedule
GapPenalty(sched) == validate_soft_constraints(sched).gap_raw

\* C1: when the input schedule has no hard violation, the working schedule has
\* none after every candidate step, and the persisted optimized schedule has none
C1_OptimizerValidity ==
    HardValid(schedule) =>
        /\ opt_pc # "start" => HardValid(schedule_map)
        /\ opt_pc = "done" => HardValid(optimized_schedule)

\* a run on a valid input that accepted a move, rejected a later one and saved
C1_Witness ==
    /\ HardValid(schedule)
    /\ opt_pc = "done"
    /\ optimized_count >= 1
    /\ opt_log = "rejected"
    /\ optimized_schedule # schedule

\* C2: a proposal is accepted exactly when the working schedule with the move
\* applied has no violating course; nothing else (the penalty) is consulted
C2_AcceptanceRule ==
    [][(opt_pc = "loop" /\ item' = item + 1 /\ HasProposal(response')) =>
          LET moved == WithProposal(schedule_map, candidates[item].course_id, response')
          IN  IF HardValid(moved)
              THEN /\ opt_log' = "accepted"
                   /\ schedule_map' = moved
                   /\ optimized_count' = optimized_count + 1
              ELSE /\ opt_log' = "rejected"
                   /\ optimized_count' = optimized_count]_vars

\* an accepted move that increased the gap penalty
C2_Witness ==
    /\ opt_pc = "loop"
    /\ item > 1
    /\ HasProposal(response)
    /\ opt_log = "accepted"
    /\ response.time_slot \in Slots
    /\ response.room_id \in Rooms
    /\ LET cid == candidates[item - 1].course_id
           pre == WithProposal(schedule_map, cid,
                               [time_slot |-> original_ts, room_id |-> original_room])
       IN  GapPenalty(schedule_map) > GapPenalty(pre)

\* C3: a move that yields a hard violation is rejected and the working schedule
\* after the step is the schedule before the step
C3_Rollback ==
    [][(/\ opt_pc = "loop"
        /\ item' = item + 1
        /\ HasProposal(response')
        /\ ~HardValid(WithProposal(schedule_map, candidates[item].course_id, response'))) =>
          /\ opt_log' = "rejected"
          /\ schedule_map' = schedule_map
          /\ optimized_count' = optimized_count]_vars

\* a rejected move to another slot and room that created an instructor conflict
C3_Witness ==
    /\ opt_pc = "loop"
    /\ item > 1
    /\ HasProposal(response)
    /\ opt_log = "rejected"
    /\ response.time_slot # original_ts
    /\ response.room_id # original_room
    /\ HardValid(schedule_map)
    /\ LET cid == candidates[item - 1].course_id
           found == validate_hard_constraints(WithProposal(schedule_map, cid, response))
       IN  /\ cid \in found.violating_ids
           /\ "Instructor Conflict" \in found.details[cid]
           /\ FieldOf(schedule_map, cid, "time_slot") = original_ts
           /\ FieldOf(schedule_map, cid, "room_id") = original_room

\* ------------------------------------------------------------------------
\* Properties of ScheduleMerger.merge_directory (SpecMerge)
\* ------------------------------------------------------------------------

\* the ids of the courses of a batch, in order
CourseIdSeq(batch) == [j \in DOMAIN batch |-> batch[j]["course_id"]]

\* the number of files of the input directory
InputCount == Cardinality(DOMAIN input_dir)

\* the number of batch files of the output directory
OutputCount == Cardinality(DOMAIN output_dir.working_schedules)

\* the smart-tail grouping of the input indices 1 .. n: consecutive pairs, the
\* last three together when n is odd and at least 3, the single one alone
ExpectedGroups(n) ==
    IF n = 1 THEN <<<<1>>>>
    ELSE IF n % 2 = 0 THEN [k \in 1 .. n \div 2 |-> <<2 * k - 1, 2 * k>>]
    ELSE [k \in 1 .. (n - 1) \div 2 |->
             IF k = (n - 1) \div 2 THEN <<n - 2, n - 1, n>> ELSE <<2 * k - 1, 2 * k>>]

\* the courses of the input files of a group, in the order of the group
GroupCourses(group) ==
    Flatten([j \in DOMAIN group |-> CourseIdSeq(input_dir[BatchName(group[j])])])

\* C8: the output batches of merge_directory are batch_1 .. batch_m, and output
\* batch k holds the courses of the k-th smart-tail group of the inputs taken in
\* numeric order of their index: consecutive pairs, the last three inputs together
\* when n is odd and n >= 3, the single input alone when n = 1
C8_SmartTailGrouping ==
    mrg_pc = "done" =>
        LET groups == ExpectedGroups(InputCount)
        IN  /\ DOMAIN output_dir.working_schedules = {BatchName(k) : k \in DOMAIN groups}
            /\ \A k \in DOMAIN groups :
                  CourseIdSeq(output_dir.working_schedules[BatchName(k)]) = GroupCourses(groups[k])

\* seven inputs were merged into exactly three batches, the last from 5, 6 and 7
C8_Witness ==
    /\ mrg_pc = "done"
    /\ InputCount = 7
    /\ OutputCount = 3
    /\ CourseIdSeq(output_dir.working_schedules[BatchName(3)]) =
          GroupCourses(<<5, 6, 7>>)
    /\ Len(output_dir.working_schedules[BatchName(3)]) = 3

\* C9 as stated: merge_directory produces exactly ceil(n/2) output batches
C9_OutputCountCeil ==
    mrg_pc = "done" => OutputCount = (InputCount + 1) \div 2

\* C9, amended: for n >= 1 non-empty input batches merge_directory produces one
\* batch when n = 1 and floor(n/2) batches when n >= 2
C9_OutputCount ==
    mrg_pc = "done" =>
        OutputCount = IF InputCount = 1 THEN 1 ELSE InputCount \div 2

\* an odd number of at least three inputs was merged into floor(n/2) batches
C9_Witness ==
    /\ mrg_pc = "done"
    /\ InputCount >= 3
    /\ InputCount % 2 = 1
    /\ OutputCount = InputCount \div 2

\* the flags that a merge removes
TransientFlags == {"hard_violation_types", "fixed_by_llm_attempt"}

\* no course of the batch carries a transient flag
CleanSlate(batch) == \A j \in DOMAIN batch : DOMAIN batch[j] \cap TransientFlags = {}

\* C10: after merge_directory no course of an output batch or of the consolidated
\* schedule carries hard_violation_types or fixed_by_llm_attempt
C10_CleanSlate ==
    mrg_pc = "done" =>
        /\ \A name \in DOMAIN output_dir.working_schedules :
              CleanSlate(output_dir.working_schedules[name])
        /\ CleanSlate(output_dir.consolidated)

\* a merge whose input carried both flags on a course, and whose output holds
\* that course
C10_Witness ==
    /\ mrg_pc = "done"
    /\ \E name \in DOMAIN input_dir : \E j \in DOMAIN input_dir[name] :
          /\ TransientFlags \subseteq DOMAIN input_dir[name][j]
          /\ \E k \in DOMAIN output_dir.consolidated :
                output_dir.consolidated[k]["course_id"] = input_dir[name][j]["course_id"]

\* the courses of the input files, file by file in numeric order
InputCourses ==
    LET files == [k \in 1 .. InputCount |-> input_dir[BatchName(k)]]
    IN  Flatten(files)

\* the number of entries of a schedule with the id, slot and room of course c
Occurrences(sched, c) ==
    Cardinality({k \in DOMAIN sched :
                    /\ sched[k]["course_id"] = c["course_id"]
                    /\ sched[k]["time_slot"] = c["time_slot"]
                    /\ sched[k]["room_id"] = c["room_id"]})

\* C11: the consolidated schedule of merge_directory holds every course of every
\* input batch exactly once, with its time_slot and room_id, holds nothing else,
\* and is the concatenation of the output batches batch_1, batch_2, ...
C11_MergerPreservation ==
    mrg_pc = "done" =>
        /\ \A k \in DOMAIN InputCourses :
              Occurrences(output_dir.consolidated, InputCourses[k]) = 1
        /\ Len(output_dir.consolidated) = Len(InputCourses)
        /\ output_dir.consolidated =
              Flatten([k \in 1 .. OutputCount |-> output_dir.working_schedules[BatchName(k)]])

\* nine input files with ten courses were merged, the last three files into
\* one batch, and the consolidated schedule holds the ten courses
C11_Witness ==
    /\ mrg_pc = "done"
    /\ InputCount = 9
    /\ Len(InputCourses) = 10
    /\ Len(output_dir.consolidated) = 10
    /\ Len(output_dir.working_schedules[BatchName(4)]) = 3

\* ------------------------------------------------------------------------
\* Properties of run_pipeline (SpecCtl, SpecCtlFair)
\* ------------------------------------------------------------------------

\* the sum of the violating-course counts that the validation reports of the
\* batches of the directory state
ReportedViolations(dir) ==
    SumOver([name \in batch_reports(dir) |->
                dir.validation_output[name].total_unique_courses_violating],
            batch_reports(dir))

\* the number of batches of the current level
BatchCount == Cardinality(DOMAIN current_schedule_dir.working_schedules)

\* the level has ended: FIXED or BUDGET_EXHAUSTED
LevelEnded == ctl_pc \in {"decide", "done"}

\* C4: whatever the Proposer answers and however many batches there are at the
\* start, the hard-constraint phase of run_pipeline reaches DONE
C4_Termination == <>(ctl_pc = "done")

\* DONE was reached on the second level, whose budget ran out with violations left
C4_Witness ==
    /\ ctl_pc = "done"
    /\ level = 2
    /\ ~is_level_fixed
    /\ fixer_runs = MAX_FIXER_ITERATIONS_PER_LEVEL
    /\ ReportedViolations(current_schedule_dir) > 0

C6_IterationBudget ==
    /\ [](fixer_runs <= MAX_FIXER_ITERATIONS_PER_LEVEL)
    /\ [](LevelEnded /\ ~is_level_fixed =>
            /\ fixer_runs = MAX_FIXER_ITERATIONS_PER_LEVEL
            /\ validator_runs = MAX_FIXER_ITERATIONS_PER_LEVEL + 1)
    /\ [](LevelEnded /\ is_level_fixed => validator_runs = fixer_runs + 1)
    /\ [][ctl_pc = "forced" =>
            /\ ctl_pc' = "decide"
            /\ validator_runs' = validator_runs + 1
            /\ fixer_runs' = fixer_runs]_vars

\* the budget of a level with several batches ran out and the forced validation
\* pass reported a violation
C6_Witness ==
    /\ ctl_pc = "decide"
    /\ ~is_level_fixed
    /\ fixer_runs = MAX_FIXER_ITERATIONS_PER_LEVEL
    /\ validator_runs = MAX_FIXER_ITERATIONS_PER_LEVEL + 1
    /\ ReportedViolations(current_schedule_dir) > 0
    /\ BatchCount > 1

\* C7: when a level has ended, at most one batch ends the phase without a merge
\* and leaves the batch as it is; otherwise the Merger runs once on the batches
\* of the level, the level number grows by one and fixing restarts on the merged
\* batches
C7_DoneMergeRule ==
    /\ [][ctl_pc = "decide" =>
            IF BatchCount <= 1
            THEN /\ ctl_pc' = "done"
                 /\ UNCHANGED <<current_schedule_dir, level, merger_runs>>
            ELSE /\ ctl_pc' = "validator"
                 /\ level' = level + 1
                 /\ merger_runs' = merger_runs + 1
                 /\ current_schedule_dir'.working_schedules =
                       merge_directory(current_schedule_dir.working_schedules).working_schedules
                 /\ fixer_runs' = 0
                 /\ validator_runs' = 0
                 /\ ~is_level_fixed']_vars
    /\ [][merger_runs' # merger_runs => ctl_pc = "decide"]_vars
    /\ [](merger_runs = level - 1)
    /\ [](ctl_pc = "done" => BatchCount <= 1)

\* the phase ended on the second level, after one merge of three batches into
\* a single batch
C7_Witness ==
    /\ ctl_pc = "done"
    /\ level = 2
    /\ merger_runs = 1
    /\ BatchCount = 1
    /\ Cardinality(DOMAIN batch_courses_dir) = 3
    /\ Len(current_schedule_dir.working_schedules[BatchName(1)]) = 3

\* ------------------------------------------------------------------------
\* Properties of the hard validation
\* ------------------------------------------------------------------------

UpperLetters == <<"A", "B", "C", "D", "E", "F", "G", "H", "I", "J", "K", "L", "M",
                  "N", "O", "P", "Q", "R", "S", "T", "U", "V", "W", "X", "Y", "Z">>

LowerLetters == <<"a", "b", "c", "d", "e", "f", "g", "h", "i", "j", "k", "l", "m",
                  "n", "o", "p", "q", "r", "s", "t", "u", "v", "w", "x", "y", "z">>

LowerCase(str) ==
    [i \in DOMAIN str |->
        IF \E k \in DOMAIN UpperLetters : UpperLetters[k] = str[i]
        THEN LowerLetters[CHOOSE k \in DOMAIN UpperLetters : UpperLetters[k] = str[i]]
        ELSE str[i]]

\* the unassigned-sentinel set: null, and after trimming the empty string, the
\* marker "<>" and the word "none" in any letter case
IsSentinel(v) ==
    \/ v = None
    \/ LET t == Strip(v)
       IN  \/ t = <<>>
           \/ t = Unassigned
           \/ (Len(t) = 4 /\ LowerCase(t) = <<"n", "o", "n", "e">>)

\* a course is placed when both its time_slot and its room_id are no sentinel
IsPlaced(c) == ~IsSentinel(Get(c, "time_slot")) /\ ~IsSentinel(Get(c, "room_id"))

PlacedCourses(sched) == SelectSeq(sched, IsPlaced)

\* course cid carries the violation kind in the details of the result
Tagged(cid, kind) == cid \in DOMAIN val_result.details /\ kind \in val_result.details[cid]

\* C12: placed-only validation. When the hard validation has run, no course
\* whose time_slot or room_id is a sentinel appears in violating_ids or in the
\* details, and the result is the result for the placed courses alone: an
\* unplaced course takes part in no index and no check, so it never causes
\* another course to be flagged.
C12_PlacedOnlyValidation ==
    val_pc = "done" =>
        /\ \A i \in DOMAIN val_schedule :
               ~IsPlaced(val_schedule[i]) =>
                   /\ PyStr(val_schedule[i]["course_id"]) \notin val_result.violating_ids
                   /\ PyStr(val_schedule[i]["course_id"]) \notin DOMAIN val_result.details
        /\ val_result = validate_hard_constraints(PlacedCourses(val_schedule))

CourseId(c) == PyStr(c["course_id"])

\* the entries of sched, other than entry i, that are placed in the slot of
\* entry i and have the same value under key
PlacedSharing(sched, i, key) ==
    {j \in DOMAIN sched :
        /\ j # i
        /\ IsPlaced(sched[j])
        /\ Get(sched[j], key) = Get(sched[i], key)
        /\ sched[j]["time_slot"] = sched[i]["time_slot"]}

\* the time slots in which the instructor of entry i has an entry other than i
OtherSlotsOfInstructor(sched, i) ==
    {sched[j]["time_slot"] : j \in
        {j \in DOMAIN sched :
            j # i /\ sched[j]["assigned_instructor"] = sched[i]["assigned_instructor"]}}

MoveTo(sched, i, ts) == [sched EXCEPT ![i] = Put(sched[i], "time_slot", ts)]

InstructorConflictIds(sched) == hard_checks(sched).ic

\* C15: Instructor Conflict. A placed course is tagged "Instructor Conflict"
\* exactly when another placed course with a different course_id has the same
\* assigned_instructor and the same time_slot (so all courses of such a group
\* are tagged), and when exactly two courses conflict, moving either of them to
\* a slot the instructor does not otherwise use removes the tag from both.
C15_InstructorConflict ==
    val_pc = "done" =>
        \A i \in DOMAIN val_schedule :
            IsPlaced(val_schedule[i]) =>
                LET others == {j \in PlacedSharing(val_schedule, i, "assigned_instructor") :
                                   CourseId(val_schedule[j]) # CourseId(val_schedule[i])}
                IN  /\ Tagged(CourseId(val_schedule[i]), "Instructor Conflict") <=> others # {}
                    /\ Cardinality(others) = 1 =>
                           \A ts \in {SlotStr(1, 1), SlotStr(1, 2), SlotStr(2, 1)}
                                         \ OtherSlotsOfInstructor(val_schedule, i) :
                               InstructorConflictIds(MoveTo(val_schedule, i, ts))
                                   \cap {CourseId(val_schedule[j]) : j \in others \cup {i}} = {}

\* the placed entries of sched in room r
PlacedIn(sched, r) == {i \in DOMAIN sched : IsPlaced(sched[i]) /\ sched[i]["room_id"] = r}

\* C16: Room Conflict. A placed course is tagged "Room Conflict" exactly when
\* another placed course has the same room_id and the same time_slot, so every
\* course of such a bucket is tagged; and no course placed in a room that holds
\* at most one placed course per slot is tagged.
C16_RoomConflict ==
    val_pc = "done" =>
        /\ \A i \in DOMAIN val_schedule :
               IsPlaced(val_schedule[i]) =>
                   (Tagged(CourseId(val_schedule[i]), "Room Conflict")
                        <=> PlacedSharing(val_schedule, i, "room_id") # {})
        /\ \A r \in Rooms :
               (\A i, j \in PlacedIn(val_schedule, r) :
                    i # j => val_schedule[i]["time_slot"] # val_schedule[j]["time_slot"])
                   => \A i \in PlacedIn(val_schedule, r) :
                          ~Tagged(CourseId(val_schedule[i]), "Room Conflict")

\* A-1 and A-2 share R1 in slot 1-1 and are tagged; B-1 is alone in R1 in slot
\* 2-1 and B-2 alone in R2, and they are not
C16_Witness ==
    /\ val_pc = "done"
    /\ val_schedule = <<Placed(1, SlotStr(1, 1), R1), Placed(2, SlotStr(1, 1), R1),
                        Placed(3, SlotStr(2, 1), R1), Placed(5, SlotStr(1, 1), R2)>>
    /\ Tagged(<<"A", "-", "1">>, "Room Conflict")
    /\ Tagged(<<"A", "-", "2">>, "Room Conflict")
    /\ ~Tagged(<<"B", "-", "1">>, "Room Conflict")
    /\ ~Tagged(<<"B", "-", "2">>, "Room Conflict")

\* the room of a schedule entry is one of rooms.json
Resolvable(c) == PyStr(c["room_id"]) \in {PyStr(rooms[k].room_id) : k \in DOMAIN rooms}

\* the entry of rooms.json of the room of a schedule entry
RoomOf(c) == rooms[CHOOSE k \in DOMAIN rooms : PyStr(rooms[k].room_id) = PyStr(c["room_id"])]

\* C17: Room Capacity boundary. A placed course with a resolvable room is
\* tagged "Room Capacity" exactly when its num_students is strictly greater
\* than the room_capacity of the room; equal numbers are no violation.
C17_RoomCapacity ==
    val_pc = "done" =>
        \A i \in DOMAIN val_schedule :
            IsPlaced(val_schedule[i]) /\ Resolvable(val_schedule[i]) =>
                (Tagged(CourseId(val_schedule[i]), "Room Capacity")
                     <=> val_schedule[i]["num_students"] > RoomOf(val_schedule[i]).room_capacity)

\* A-1 (30 students) and A-2 (40 students) in R2 (capacity 30): only A-2 is tagged
C17_Witness ==
    /\ val_pc = "done"
    /\ val_schedule[1] = Placed(1, SlotStr(1, 1), R2)
    /\ val_schedule[2] = Placed(2, SlotStr(2, 1), R2)
    /\ val_schedule[1]["num_students"] = RoomOf(val_schedule[1]).room_capacity
    /\ ~Tagged(<<"A", "-", "1">>, "Room Capacity")
    /\ Tagged(<<"A", "-", "2">>, "Room Capacity")

HasRequiredType(c) == Get(c, "required_room_type") \notin {None, <<>>}

\* C18: Room Type. A placed course with a resolvable room is tagged "Room
\* Type" exactly when it has a required_room_type and that differs from the
\* room_type of the room; a placed course without a required type is not
\* tagged in any room.
C18_RoomType ==
    val_pc = "done" =>
        \A i \in DOMAIN val_schedule :
            IsPlaced(val_schedule[i]) =>
                /\ Resolvable(val_schedule[i]) =>
                       (Tagged(CourseId(val_schedule[i]), "Room Type")
                            <=> /\ HasRequiredType(val_schedule[i])
                                /\ val_schedule[i]["required_room_type"]
                                       # RoomOf(val_schedule[i]).room_type)
                /\ ~HasRequiredType(val_schedule[i])
                       => ~Tagged(CourseId(val_schedule[i]), "Room Type")

\* A-2 requires Lab and is in R2, a Lec room; A-1 requires nothing and is in R2 too
C18_Witness ==
    /\ val_pc = "done"
    /\ val_schedule[1] = Placed(1, SlotStr(1, 1), R2)
    /\ val_schedule[2] = Placed(2, SlotStr(2, 1), R2)
    /\ val_schedule[3] = Placed(3, SlotStr(1, 1), R1)
    /\ Tagged(<<"A", "-", "2">>, "Room Type")
    /\ ~Tagged(<<"A", "-", "1">>, "Room Type")
    /\ ~Tagged(<<"B", "-", "1">>, "Room Type")

\* the slots the available_times of instructors.json and rooms.json list; I1
\* and R1 list none
AvailableSlots ==
    [e \in {I1, I2, R1, R2} |->
        IF e = I2 THEN {SlotStr(1, 1), SlotStr(1, 2), SlotStr(1, 3)}
        ELSE IF e = R2 THEN {SlotStr(1, 1), SlotStr(1, 2), SlotStr(1, 3), SlotStr(1, 4)}
        ELSE {}]

\* the entity under key of entry c is known, lists slots, and not the slot of c
Unavailable(c, key) ==
    /\ Get(c, key) \in DOMAIN AvailableSlots
    /\ AvailableSlots[c[key]] # {}
    /\ c["time_slot"] \notin AvailableSlots[c[key]]

\* C19: Availability. A placed course is tagged "Instructor Availability"
\* (and likewise "Room Availability") exactly when its instructor (its room)
\* is resolvable, has a non-empty available_times, and the time_slot of the
\* course is not among them; an instructor or room with empty available_times
\* never produces the tag.
C19_Availability ==
    val_pc = "done" =>
        \A i \in DOMAIN val_schedule :
            IsPlaced(val_schedule[i]) =>
                /\ Tagged(CourseId(val_schedule[i]), "Instructor Availability")
                       <=> Unavailable(val_schedule[i], "assigned_instructor")
                /\ Tagged(CourseId(val_schedule[i]), "Room Availability")
                       <=> Unavailable(val_schedule[i], "room_id")
                /\ val_schedule[i]["assigned_instructor"] = I1
                       => ~Tagged(CourseId(val_schedule[i]), "Instructor Availability")
                /\ val_schedule[i]["room_id"] = R1
                       => ~Tagged(CourseId(val_schedule[i]), "Room Availability")

\* in slot 2-1, listed by neither I2 nor R2: B-1 (I2, in R2) has both tags,
\* A-1 (I1, in R1) has none; B-2 (I2, in R2) in the listed slot 1-1 has none
C19_Witness ==
    /\ val_pc = "done"
    /\ val_schedule[1] = Placed(1, SlotStr(2, 1), R1)
    /\ val_schedule[3] = Placed(3, SlotStr(2, 1), R2)
    /\ val_schedule[4] = Placed(5, SlotStr(1, 1), R2)
    /\ Tagged(<<"B", "-", "1">>, "Instructor Availability")
    /\ Tagged(<<"B", "-", "1">>, "Room Availability")
    /\ ~Tagged(<<"A", "-", "1">>, "Instructor Availability")
    /\ ~Tagged(<<"A", "-", "1">>, "Room Availability")
    /\ ~Tagged(<<"B", "-", "2">>, "Instructor Availability")
    /\ ~Tagged(<<"B", "-", "2">>, "Room Availability")

\* max_courses_per_day of instructors.json: 1 for I2, absent for I1
MaxCoursesPerDay == [e \in {I1, I2} |-> IF e = I2 THEN 1 ELSE DEFAULT_MAX_COURSES_PER_DAY]

DayOf(c) == parse_time_slot(c["time_slot"]).day

\* the placed entries of sched of the instructor of entry i on the day of entry
\* i, entry i included: each course counts, also several in one slot
SameInstructorAndDay(sched, i) ==
    {j \in DOMAIN sched :
        /\ IsPlaced(sched[j])
        /\ sched[j]["assigned_instructor"] = sched[i]["assigned_instructor"]
        /\ parse_time_slot(sched[j]["time_slot"]).ok
        /\ DayOf(sched[j]) = DayOf(sched[i])}

\* C20: Instructor Daily Load. The load of an instructor on a day is the number
\* of placed courses of the instructor on that day, courses double-booked in
\* one slot counting each; a placed course is tagged "Instructor Daily Load"
\* when the load of its instructor on its day exceeds max_courses_per_day (4
\* when absent), and is not tagged when the load does not exceed it.
C20_InstructorDailyLoad ==
    val_pc = "done" =>
        \A i \in DOMAIN val_schedule :
            IsPlaced(val_schedule[i]) /\ parse_time_slot(val_schedule[i]["time_slot"]).ok =>
                (Tagged(CourseId(val_schedule[i]), "Instructor Daily Load")
                     <=> Cardinality(SameInstructorAndDay(val_schedule, i))
                             > MaxCoursesPerDay[val_schedule[i]["assigned_instructor"]])

\* the semester of curriculum.json that lists the base id (the text before the
\* first "-") of the course of entry c; <<>> when none does
SemesterOf(c) ==
    LET id == CourseId(c)
        base == SubSeq(id, 1, (CHOOSE k \in 1 .. (Len(id) + 1) :
                                   /\ k = Len(id) + 1 \/ id[k] = "-"
                                   /\ \A j \in 1 .. (k - 1) : id[j] # "-") - 1)
        listed == {i \in DOMAIN curriculum :
                       \E j \in DOMAIN curriculum[i].course_list :
                           curriculum[i].course_list[j].course_id = base}
    IN  [base |-> base,
         sem |-> IF listed = {} THEN <<>> ELSE curriculum[CHOOSE i \in listed : TRUE].sem]

\* entries c and d are of different base courses of one semester
SameSemester(c, d) ==
    /\ SemesterOf(c).base # SemesterOf(d).base
    /\ SemesterOf(c).sem # <<>>
    /\ SemesterOf(c).sem = SemesterOf(d).sem

\* C21: Intra-Semester Conflict. A placed course is tagged "Intra-Semester
\* Conflict" exactly when another placed course in the same time_slot has a
\* different base id, both base ids map to a semester, and the semesters are
\* equal, so both courses of such a pair are tagged; sections of one base
\* course in one slot are not tagged against each other.
C21_IntraSemester ==
    val_pc = "done" =>
        \A i \in DOMAIN val_schedule :
            IsPlaced(val_schedule[i]) =>
                (Tagged(CourseId(val_schedule[i]), "Intra-Semester Conflict")
                     <=> \E j \in DOMAIN val_schedule :
                             /\ j # i
                             /\ IsPlaced(val_schedule[j])
                             /\ val_schedule[j]["time_slot"] = val_schedule[i]["time_slot"]
                             /\ SameSemester(val_schedule[i], val_schedule[j]))

Annotated(sched) == {i \in DOMAIN sched : "hard_violation_types" \in DOMAIN sched[i]}

\* C24: validation idempotence. A second validation of a schedule, annotated
\* by the caller after the first, returns the violating_ids and details of the
\* first; when the first pass found the schedule clean, validation plus
\* annotation again gives an empty violating_ids, empty details, and no
\* annotation on any course.
C24_Idempotence ==
    [][val_pc' = "again" =>
          /\ val_result'.violating_ids = val_result.violating_ids
          /\ val_result'.details = val_result.details
          /\ val_result.violating_ids = {} =>
                 /\ val_result'.violating_ids = {}
                 /\ DOMAIN val_result'.details = {}
                 /\ Annotated(val_schedule') = {}
                 /\ Annotated(annotate(val_schedule', val_result'.details)) = {}]_vars

\* a schedule with A-2 and B-1 placed and found clean twice
C24_Witness ==
    /\ val_pc = "again"
    /\ val_schedule[2] = Placed(2, SlotStr(2, 1), R1)
    /\ val_schedule[3] = Placed(3, SlotStr(1, 1), R2)
    /\ val_result.violating_ids = {}
    /\ DOMAIN val_result.details = {}

\* ------------------------------------------------------------------------
\* Properties of is_assigned and parse_time_slot
\* ------------------------------------------------------------------------

\* a value of the unassigned-sentinel set: null or a sentinel string
IsSentinelValue(x) == x.type = "none" \/ (x.type = "str" /\ IsSentinel(x.s))

\* C13: sentinel detection. is_assigned returns false for every value of the
\* unassigned-sentinel set (null, "", "<>", "none", "None") and true for every
\* other string and for every value that is not a string.
C13_SentinelDetection ==
    fn_pc = "is_assigned" => (fn_assigned <=> ~IsSentinelValue(fn_value))

\* the places <<a, b>> of the digits of an integer text: optional whitespace, an
\* optional sign, the digits t[a..b], optional whitespace
IntTexts(t) ==
    {r \in (DOMAIN t) \X (DOMAIN t) :
        /\ r[1] <= r[2]
        /\ \A k \in r[1] .. r[2] : IsDigit(t[k])
        /\ \A k \in (r[2] + 1) .. Len(t) : t[k] \in Whitespace
        /\ \A k \in 1 .. (r[1] - 1) :
               t[k] \in Whitespace \/ (k = r[1] - 1 /\ t[k] \in {"+", "-"})}

IntTextValue(t) ==
    LET r == CHOOSE r \in IntTexts(t) : TRUE
        n == DigitsVal(SubSeq(t, r[1], r[2]))
    IN  IF r[1] > 1 /\ t[r[1] - 1] = "-" THEN 0 - n ELSE n

\* the places of a separator of a string "<int>-<int>": a "-" with an integer
\* text before it and an integer text after it, and no "-" before it
SlotForms(str) ==
    {k \in DOMAIN str :
        /\ str[k] = "-"
        /\ \A j \in 1 .. (k - 1) : str[j] # "-"
        /\ IntTexts(SubSeq(str, 1, k - 1)) # {}
        /\ IntTexts(SubSeq(str, k + 1, Len(str))) # {}}

SlotFormValue(str) ==
    LET k == CHOOSE k \in SlotForms(str) : TRUE
    IN  [ok |-> TRUE, day |-> IntTextValue(SubSeq(str, 1, k - 1)),
         period |-> IntTextValue(SubSeq(str, k + 1, Len(str)))]

\* C14: slot parsing fails closed. parse_time_slot returns the two integers
\* (day, period) exactly when its argument is a string "<int>-<int>", the
\* integers being the texts on the two sides of its first "-"; for every other
\* argument (a value that is no string, a string without "-", a side that is no
\* integer) it returns (None, None), never one integer alone. "2-4" gives
\* (2, 4); "abc", "2" and None give (None, None).
C14_SlotParsing ==
    fn_pc = "parse_time_slot" =>
        /\ IF fn_value.type = "str" /\ SlotForms(fn_value.s) # {}
           THEN fn_slot = SlotFormValue(fn_value.s)
           ELSE fn_slot = NoSlot
        /\ fn_value = StrValue(SlotStr(2, 4)) => fn_slot = [ok |-> TRUE, day |-> 2, period |-> 4]
        /\ fn_value \in {StrValue(<<"a", "b", "c">>), StrValue(<<"2">>), NoneValue, IntValue(24)}
               => fn_slot = NoSlot

C14_Witness ==
    /\ fn_pc = "parse_time_slot"
    /\ fn_value = StrValue(<<" ", "2", "-", "4">>)
    /\ fn_slot = [ok |-> TRUE, day |-> 2, period |-> 4]

\* ------------------------------------------------------------------------
\* Properties of the gap calculation
\* ------------------------------------------------------------------------

\* the periods instructor entry e occupies on day d
OccupiedPeriods(e, d) ==
    {p \in 1 .. (MaxGapPeriod + 1) : \E k \in DOMAIN e.time_slots : e.time_slots[k] = SlotStr(d, p)}

\* the periods between the first and the last occupied period that are free
Holes(periods) ==
    IF periods = {} THEN 0
    ELSE LET first == CHOOSE p \in periods : \A q \in periods : p <= q
             last == CHOOSE p \in periods : \A q \in periods : q <= p
         IN  (last - first + 1) - Cardinality(periods)

\* the gap the details report for instructor inst on day d, 0 without a row
ReportedGap(inst, d) ==
    LET rows == {k \in DOMAIN proc_output.details :
                     /\ proc_output.details[k].instructor_id = inst
                     /\ proc_output.details[k].day = IntStr(d)}
    IN  IF rows = {} THEN 0 ELSE proc_output.details[CHOOSE k \in rows : TRUE].gap

RECURSIVE SumHoles(_)
SumHoles(sched) ==
    IF sched = <<>> THEN 0
    ELSE Holes(OccupiedPeriods(Head(sched), 1)) + Holes(OccupiedPeriods(Head(sched), 2))
         + SumHoles(Tail(sched))

\* C22: gap penalty. For each instructor and day the gap is (max period - min
\* period + 1) minus the number of distinct occupied periods, which is the sum
\* of max(0, next - prev - 1) over the consecutive sorted periods; periods
\* [1, 2, 4] give 1, [1, 2, 3] give 0, one period gives 0, and the total
\* penalty is the sum over all instructors and days.
C22_GapPenalty ==
    proc_pc = "done" =>
        /\ \A k \in DOMAIN proc_input : \A d \in 1 .. 2 :
               ReportedGap(proc_input[k].instructor_id, d)
                   = Holes(OccupiedPeriods(proc_input[k], d))
        /\ proc_output.total_penalty = SumHoles(proc_input)
        /\ \A k \in DOMAIN proc_input : \A d \in 1 .. 2 :
               LET periods == OccupiedPeriods(proc_input[k], d)
               IN  /\ periods = {1, 2, 4} => ReportedGap(proc_input[k].instructor_id, d) = 1
                   /\ periods = {1, 2, 3} => ReportedGap(proc_input[k].instructor_id, d) = 0
                   /\ Cardinality(periods) = 1 => ReportedGap(proc_input[k].instructor_id, d) = 0

\* I1 has the periods 4, 1, 2 of day 1, given out of order, and I2 the periods
\* 3 and 1: the gaps are 1 and 1 and the total is 2
C22_Witness ==
    /\ proc_pc = "done"
    /\ proc_input[1].time_slots = <<SlotStr(1, 4), SlotStr(1, 1), SlotStr(1, 2)>>
    /\ Len(proc_input) = 2
    /\ proc_input[2].time_slots = <<SlotStr(1, 3), SlotStr(1, 1)>>
    /\ ReportedGap(I1, 1) = 1
    /\ ReportedGap(I2, 1) = 1
    /\ proc_output.total_penalty = 2

\* ------------------------------------------------------------------------
\* Properties of the cleaner
\* ------------------------------------------------------------------------

\* the number of entries of sched with the course_id of c
CountOf(sched, c) == Cardinality({k \in DOMAIN sched : sched[k]["course_id"] = c["course_id"]})

\* entry c carries at least one violation kind
CarriesKind(c) == \E kind \in {"Room Conflict", "Room Type"} :
                      "hard_violation_types" \in DOMAIN c /\ kind \in c["hard_violation_types"]

\* entries c and d agree on every field but the two annotations
SameCourse(c, d) ==
    LET keys(e) == DOMAIN e \ {"hard_violation_types", "fixed_by_llm_attempt"}
    IN  keys(c) = keys(d) /\ \A key \in keys(c) : c[key] = d[key]

\* C25: cleaner split. Every course of the consolidated schedule is in exactly
\* one of clean and unsolved, so the two counts add up to the total; a course
\* is unsolved exactly when it carries at least one violation kind, and is
\* written there as it was; a clean course carries no hard_violation_types and
\* no fixed_by_llm_attempt and is otherwise as it was; without a violating
\* course the unsolved count is 0.
C25_CleanerSplit ==
    proc_pc = "done" =>
        /\ \A k \in DOMAIN proc_input :
               /\ CountOf(proc_output.clean, proc_input[k])
                      + CountOf(proc_output.unsolved, proc_input[k]) = 1
               /\ CountOf(proc_output.unsolved, proc_input[k]) = 1 <=> CarriesKind(proc_input[k])
               /\ CarriesKind(proc_input[k])
                      => \E j \in DOMAIN proc_output.unsolved :
                             proc_output.unsolved[j] = proc_input[k]
               /\ ~CarriesKind(proc_input[k])
                      => \E j \in DOMAIN proc_output.clean :
                             SameCourse(proc_output.clean[j], proc_input[k])
        /\ proc_output.clean_count = Len(proc_output.clean)
        /\ proc_output.unsolved_count = Len(proc_output.unsolved)
        /\ proc_output.clean_count + proc_output.unsolved_count = Len(proc_input)
        /\ \A j \in DOMAIN proc_output.clean :
               /\ "hard_violation_types" \notin DOMAIN proc_output.clean[j]
               /\ "fixed_by_llm_attempt" \notin DOMAIN proc_output.clean[j]
        /\ (\A k \in DOMAIN proc_input : ~CarriesKind(proc_input[k]))
               => proc_output.unsolved_count = 0

\* three courses: one fixed by the Proposer and clean with an empty
\* hard_violation_types, one violating, one plain
C25_Witness ==
    /\ proc_pc = "done"
    /\ Len(proc_input) = 3
    /\ proc_input[1] = Put(Put(Placed(1, SlotStr(1, 1), R1), "fixed_by_llm_attempt", TRUE),
                           "hard_violation_types", {})
    /\ CarriesKind(proc_input[2])
    /\ proc_input[3] = Placed(3, SlotStr(1, 3), R1)
    /\ proc_output.clean = <<Placed(1, SlotStr(1, 1), R1), Placed(3, SlotStr(1, 3), R1)>>
    /\ proc_output.unsolved = <<proc_input[2]>>
    /\ proc_output.unsolved_count = 1

\* ------------------------------------------------------------------------
\* Properties of the batch processor
\* ------------------------------------------------------------------------

\* the batches of a directory of files named by Name(1), Name(2), ..., in order
InitialBatches(files) == [b \in 1 .. Cardinality(DOMAIN files) |-> files[BatchCoursesName(b)]]

\* how often entry e occurs in the list
EntryCount(list, e) == Cardinality({k \in DOMAIN list : list[k] = e})

\* the batches are the input courses in non-increasing order of num_students,
\* cut into consecutive chunks of the batch size, each course once and with
\* both placeholders
InitialBatching(input, files) ==
    LET n == Len(input.courses)
        size == input.batch_size
        count == (n + size - 1) \div size
        emitted == Flatten(InitialBatches(files))
    IN  /\ DOMAIN files = {BatchCoursesName(b) : b \in 1 .. count}
        /\ \A b \in 1 .. count - 1 : Len(files[BatchCoursesName(b)]) = size
        /\ count > 0 => Len(files[BatchCoursesName(count)]) \in 1 .. size
        /\ Len(emitted) = n
        /\ \A k \in 1 .. Len(emitted) - 1 :
               GetD(emitted[k], "num_students", 0) >= GetD(emitted[k + 1], "num_students", 0)
        /\ \A k \in DOMAIN emitted :
               /\ Get(emitted[k], "time_slot") = Unassigned
               /\ Get(emitted[k], "room_id") = Unassigned
               /\ EntryCount(emitted, emitted[k])
                      = Cardinality({j \in DOMAIN input.courses :
                            Put(Put(input.courses[j], "time_slot", Unassigned),
                                "room_id", Unassigned) = emitted[k]})

\* C26 as stated: initial batching. prepare_initial_batches emits the courses
\* in non-increasing order of num_students cut into consecutive chunks of
\* BATCH_SIZE (only the last may be shorter, ceil(n/BATCH_SIZE) batches in
\* all), every input course is in exactly one batch, and every course in
\* every batch has time_slot and room_id equal to "<>".
C26_AsStated == proc_pc = "prepared" => InitialBatching(proc_input, proc_output)

\* C26: initial batching, when the instructor list is not empty:
\* prepare_initial_batches emits the courses in non-increasing order of
\* num_students cut into consecutive chunks of BATCH_SIZE (only the last may
\* be shorter, ceil(n/BATCH_SIZE) batches in all), every input course is in
\* exactly one batch, and every course in every batch has time_slot and
\* room_id equal to "<>".
C26_InitialBatching ==
    (proc_pc = "prepared" /\ proc_input.instructors # <<>>)
        => InitialBatching(proc_input, proc_output)

\* four courses in batches of three: A-2 (40), then A-1 and E-1 (both 30) in
\* their input order, then D-1 (no num_students) alone in the second batch
C26_Witness ==
    /\ proc_pc = "prepared"
    /\ proc_input.instructors # <<>>
    /\ proc_input.batch_size = 3
    /\ Len(proc_input.courses) = 4
    /\ proc_input.courses[1]["course_id"] = <<"D", "-", "1">>
    /\ proc_input.courses[2] = courses[1]
    /\ proc_input.courses[3] = Placed(2, SlotStr(1, 1), R1)
    /\ proc_input.courses[4]["course_id"] = <<"E", "-", "1">>
    /\ Len(proc_output[BatchCoursesName(1)]) = 3
    /\ proc_output[BatchCoursesName(1)][1] = Placed(2, Unassigned, Unassigned)
    /\ proc_output[BatchCoursesName(1)][2] = Placed(1, Unassigned, Unassigned)
    /\ proc_output[BatchCoursesName(1)][3]["course_id"] = <<"E", "-", "1">>
    /\ Len(proc_output[BatchCoursesName(2)]) = 1
    /\ proc_output[BatchCoursesName(2)][1]["course_id"] = <<"D", "-", "1">>
    /\ proc_output[BatchCoursesName(2)][1]["room_id"] = Unassigned

\* the batches of working_schedules, in the order of their numbers
RebatchedBatches(files) == [b \in 1 .. Cardinality(DOMAIN files) |-> files[BatchName(b)]]

\* C27: rebatching. rebatch_schedule cuts the flat schedule into consecutive
\* chunks of BATCH_SIZE without sorting and without resetting assignments:
\* the batches are batch_1 .. batch_k, every batch but the last holds
\* BATCH_SIZE courses and the last holds at most as many, their concatenation
\* in order equals the input schedule, and so every course keeps its
\* time_slot and room_id.
C27_Rebatching ==
    proc_pc = "rebatched" =>
        LET files == proc_output.working_schedules
            count == Cardinality(DOMAIN files)
        IN  /\ DOMAIN files = {BatchName(b) : b \in 1 .. count}
            /\ \A b \in 1 .. count - 1 : Len(files[BatchName(b)]) = proc_input.batch_size
            /\ count > 0 => Len(files[BatchName(count)]) \in 1 .. proc_input.batch_size
            /\ Flatten(RebatchedBatches(files)) = proc_input.courses
            /\ \A k \in DOMAIN proc_input.courses :
                   LET b == ((k - 1) \div proc_input.batch_size) + 1
                       c == files[BatchName(b)][((k - 1) % proc_input.batch_size) + 1]
                   IN  /\ Get(c, "time_slot") = Get(proc_input.courses[k], "time_slot")
                       /\ Get(c, "room_id") = Get(proc_input.courses[k], "room_id")

\* an unsorted schedule of three placed courses in batches of two
C27_Witness ==
    /\ proc_pc = "rebatched"
    /\ proc_input.batch_size = 2
    /\ Len(proc_input.courses) = 3
    /\ proc_input.courses[1]["course_id"] = <<"D", "-", "1">>
    /\ proc_input.courses[2] = Placed(2, SlotStr(1, 1), R1)
    /\ proc_input.courses[3]["course_id"] = <<"E", "-", "1">>
    /\ proc_output.working_schedules[BatchName(1)]
           = <<proc_input.courses[1], Placed(2, SlotStr(1, 1), R1)>>
    /\ proc_output.working_schedules[BatchName(2)] = <<proc_input.courses[3]>>
    /\ proc_output.working_schedules[BatchName(2)][1]["time_slot"] = SlotStr(1, 2)

\* ------------------------------------------------------------------------
\* Properties of the validation and Fixer passes of the repair controller
\* ------------------------------------------------------------------------

\* the file of the directory that a validation pass read under the name
ValidatedInput(dir, name) ==
    IF name \in DOMAIN dir.consolidated THEN dir.consolidated[name]
    ELSE dir.working_schedules[name]

\* entries c and d agree on every field but hard_violation_types
SameButViolations(c, d) ==
    /\ DOMAIN c \ {"hard_violation_types"} = DOMAIN d \ {"hard_violation_types"}
    /\ \A key \in DOMAIN c \ {"hard_violation_types"} : c[key] = d[key]

\* C28: annotation replacement. After a validation pass of the repair
\* controller, each course's hard_violation_types equals exactly the set of
\* violation kinds found for it in that pass and is absent when none was
\* found, whatever annotation the course carried in the file the pass read;
\* kinds from earlier passes never accumulate, and no other field changes.
C28_AnnotationReplacement ==
    \A name \in DOMAIN current_schedule_dir.validation_output :
        LET before == ValidatedInput(current_schedule_dir, name)
            after == current_schedule_dir.validation_output[name].validated_schedule
            found == validate_hard_constraints(before).details
        IN  /\ Len(after) = Len(before)
            /\ \A j \in DOMAIN after :
                   LET cid == PyStr(Get(before[j], "course_id"))
                   IN  /\ SameButViolations(after[j], before[j])
                       /\ cid \in DOMAIN found
                              => /\ "hard_violation_types" \in DOMAIN after[j]
                                 /\ after[j]["hard_violation_types"] = found[cid]
                       /\ cid \notin DOMAIN found
                              => "hard_violation_types" \notin DOMAIN after[j]

\* a second validation pass of a level read a course that still carried the
\* kinds of the first pass and was unplaced by the Fixer: it has no
\* annotation after the pass
C28_Witness ==
    /\ validator_runs >= 2
    /\ \E name \in DOMAIN current_schedule_dir.validation_output :
          \E j \in DOMAIN current_schedule_dir.validation_output[name].validated_schedule :
             /\ needs_fix(ValidatedInput(current_schedule_dir, name)[j])
             /\ "hard_violation_types" \notin
                    DOMAIN current_schedule_dir.validation_output[name].validated_schedule[j]

PassTargets ==
    IF proc_input.agent = "fixer"
    THEN {c["course_id"] : c \in {d \in Range(Flatten(proc_input.batches)) : needs_fix(d)}}
    ELSE {cand.course_id :
             cand \in Range(identify_candidates(proc_input.schedule, proc_input.sc_report))}

\* the number of Proposer calls made for the course so far
CallsFor(cid) ==
    Cardinality({k \in DOMAIN proc_output.calls : proc_output.calls[k].course_id = cid})

\* C30: bounded proposing. Within one Fixer pass the Proposer is called
\* exactly once for each violating course and never for another course, and
\* within one Optimizer pass exactly once for each candidate; no course is
\* proposed a second time in the same pass even when its first proposal
\* failed or was rejected, and each call makes at most MAX_RETRIES attempts.
C30_BoundedProposing ==
    proc_pc \in {"scan", "call", "done"} =>
        /\ \A k \in DOMAIN proc_output.calls :
               /\ proc_output.calls[k].course_id \in PassTargets
               /\ CallsFor(proc_output.calls[k].course_id) = 1
               /\ proc_output.calls[k].attempts <= MAX_RETRIES
        /\ proc_pc = "done" =>
               /\ \A cid \in PassTargets : CallsFor(cid) = 1
               /\ proc_input.agent = "optimizer" =>
                      Len(proc_output.calls)
                          = Len(identify_candidates(proc_input.schedule, proc_input.sc_report))

\* a finished Fixer pass over two violating courses: the first call used up
\* its attempts without an answer, the second was answered at its second
\* attempt, and neither course was called again
C30_Witness ==
    /\ proc_pc = "done"
    /\ proc_input.agent = "fixer"
    /\ Len(proc_output.calls) = 2
    /\ proc_output.calls[1].response = NoResponse
    /\ proc_output.calls[1].attempts = MAX_RETRIES
    /\ is_fix(proc_output.calls[2].response)
    /\ proc_output.calls[2].attempts = 2
    /\ Cardinality(PassTargets) = 2

\* the calls of the pass whose response is no fix: no response at all, the
\* no-fix signal, or a response without a time slot
FailedCalls == {k \in DOMAIN proc_output.calls : ~is_fix(proc_output.calls[k].response)}

\* the sum of a counter over the report of the pass
Reported(counter) == SumSeq(MapSeq(proc_output.report_data, LAMBDA row : row[counter]))

\* C31: Proposer failure is tolerated. When the Proposer returns nothing
\* usable for a course (no response, a malformed response, or the no-fix
\* signal), the Fixer pass goes on: at the end of the pass that course is
\* unassigned and still carries its violation kinds, the report counts it as
\* failed and not as fixed, and every violating course of the pass has had
\* its call.
C31_ProposerFailure ==
    (proc_input.agent = "fixer" /\ proc_pc = "done") =>
        /\ \A k \in FailedCalls :
               \E i \in DOMAIN proc_output.global_schedule :
                  LET c == proc_output.global_schedule[i]
                  IN  /\ c["course_id"] = proc_output.calls[k].course_id
                      /\ c["time_slot"] = Unassigned
                      /\ c["room_id"] = Unassigned
                      /\ needs_fix(c)
        /\ Reported("failed_count") = Cardinality(FailedCalls)
        /\ Reported("fixed_count") = Len(proc_output.calls) - Cardinality(FailedCalls)
        /\ \A cid \in PassTargets : CallsFor(cid) = 1
        /\ Len(proc_output.report_data) = Len(proc_input.batches)

\* three violating courses in one batch: the first call ends without a
\* response, the second with the no-fix signal, and the third course is fixed
C31_Witness ==
    /\ proc_pc = "done"
    /\ proc_input.agent = "fixer"
    /\ Len(proc_input.batches) = 1
    /\ Len(proc_output.calls) = 3
    /\ proc_output.calls[1].response = NoResponse
    /\ proc_output.calls[2].response = [time_slot |-> NO_FIX_FOUND, room_id |-> Unassigned]
    /\ is_fix(proc_output.calls[3].response)
    /\ proc_output.report_data = <<[fixed_count |-> 1, failed_count |-> 2]>>

\* C32: failed repairs are retried at the next pass. When the controller is
\* about to run another Fixer pass of the level, every course whose repair
\* failed in the previous pass (the Fixer's output holds it with its violation
\* kinds still on it) is among the courses that pass asks the Proposer about.
C32_RetryAtNextPass ==
    (ctl_pc = "fixer" /\ fixer_runs >= 1) =>
        \A name \in DOMAIN current_schedule_dir.working_schedules :
            \A j \in DOMAIN current_schedule_dir.working_schedules[name] :
                needs_fix(current_schedule_dir.working_schedules[name][j])
                    => current_schedule_dir.working_schedules[name][j]["course_id"]
                           \in courses_to_fix(current_schedule_dir)

\* ------------------------------------------------------------------------
\* Properties of the validation of malformed and unresolvable entries
\* ------------------------------------------------------------------------

\* the validation of the schedule has run
RefDone == proc_pc = "validated"

RefTagged(cid, kind) ==
    /\ cid \in DOMAIN proc_output.details
    /\ kind \in proc_output.details[cid]

\* the pairs of distinct entries of the schedule that share key and a time
\* slot, the slot being well-formed or not as asked
RefSharing(key, wellformed) ==
    {pr \in (DOMAIN proc_input) \X (DOMAIN proc_input) :
        /\ pr[1] # pr[2]
        /\ proc_input[pr[1]][key] = proc_input[pr[2]][key]
        /\ proc_input[pr[1]]["time_slot"] = proc_input[pr[2]]["time_slot"]
        /\ parse_time_slot(proc_input[pr[1]]["time_slot"]).ok = wellformed}

\* C33: two courses that share an instructor (a room) and the same time slot
\* that does not parse are not tagged Instructor Conflict (Room Conflict)
C33_MalformedSlotsNotIndexed ==
    RefDone =>
        /\ \A pr \in RefSharing("assigned_instructor", FALSE) :
               ~RefTagged(proc_input[pr[1]]["course_id"], KindName.ic)
        /\ \A pr \in RefSharing("room_id", FALSE) :
               ~RefTagged(proc_input[pr[1]]["course_id"], KindName.rc)

\* the entry's room, instructor or course is in the static data
RefKnown(c, key) ==
    PyStr(c[key]) \in DOMAIN (CASE key = "room_id" -> room_map
                               [] key = "assigned_instructor" -> instructor_map
                               [] OTHER -> course_map)

\* C34: a course whose room, instructor or course id the static data does not
\* hold gets no finding from a check that needs the missing entry (capacity and
\* room type need the course and the room, each availability its entity), and
\* two courses that share an unresolvable room or instructor at one well-formed
\* time slot are still tagged with the conflict
C34_UnresolvedReferences ==
    RefDone =>
        /\ \A i \in DOMAIN proc_input :
               LET c == proc_input[i]
               IN  /\ ~(RefKnown(c, "room_id") /\ RefKnown(c, "course_id"))
                       => /\ ~RefTagged(c["course_id"], KindName.cap)
                          /\ ~RefTagged(c["course_id"], KindName.typ)
                   /\ ~RefKnown(c, "room_id") => ~RefTagged(c["course_id"], KindName.ra)
                   /\ ~RefKnown(c, "assigned_instructor")
                       => ~RefTagged(c["course_id"], KindName.ia)
        /\ \A pr \in RefSharing("room_id", TRUE) :
               RefTagged(proc_input[pr[1]]["course_id"], KindName.rc)
        /\ \A pr \in RefSharing("assigned_instructor", TRUE) :
               RefTagged(proc_input[pr[1]]["course_id"], KindName.ic)

\* a validated schedule with two courses in the unknown room at one slot, one
\* of the unknown instructor and the other the unknown course, both tagged
\* Room Conflict
C34_Witness ==
    /\ RefDone
    /\ \E pr \in RefSharing("room_id", TRUE) :
           /\ ~RefKnown(proc_input[pr[1]], "room_id")
           /\ ~RefKnown(proc_input[pr[1]], "assigned_instructor")
           /\ RefTagged(proc_input[pr[1]]["course_id"], KindName.rc)
           /\ RefTagged(proc_input[pr[2]]["course_id"], KindName.rc)
           /\ ~RefKnown(proc_input[pr[2]], "course_id")

\* ------------------------------------------------------------------------
\* Properties of the candidate selection
\* ------------------------------------------------------------------------

\* the placed courses of instructor inst whose time slot is on day d (day as the
\* soft report writes it)
OnInstructorDay(inst, d) ==
    {i \in DOMAIN proc_input :
        /\ proc_input[i]["time_slot"] \notin {None, Unassigned}
        /\ PyStr(proc_input[i]["assigned_instructor"]) = PyStr(inst)
        /\ parse_time_slot(proc_input[i]["time_slot"]).ok
        /\ IntStr(parse_time_slot(proc_input[i]["time_slot"]).day) = d}

\* C35: the candidates are exactly the placed courses of the instructor-days the
\* soft report lists with a gap, each once
C35_CandidateSelection ==
    proc_pc = "identified" =>
        LET cands == proc_output.candidates
            rows == proc_output.sc_report.gap_details
            expected == UNION {OnInstructorDay(rows[g].instructor_id, rows[g].day) :
                                  g \in DOMAIN rows}
        IN  /\ {cands[k].course_id : k \in DOMAIN cands}
                   = {proc_input[i]["course_id"] : i \in expected}
            /\ \A k, l \in DOMAIN cands : cands[k].course_id = cands[l].course_id => k = l

\* ------------------------------------------------------------------------
\* Properties of the hard-constraint phase as a whole
\* ------------------------------------------------------------------------

\* the course ids of the files of a directory, file by file in numeric order
IdsOfFiles(files) ==
    LET names == SortedFiles(DOMAIN files)
    IN  Flatten([f \in DOMAIN names |->
            [j \in DOMAIN files[names[f]] |-> files[names[f]][j]["course_id"]]])

ProducedIds == IdsOfFiles(batch_courses_dir)

CurrentIds == IdsOfFiles(current_schedule_dir.working_schedules)

\* C36: once the generator has run, the batches of the current level hold every
\* course id of the Batch Processor's batches exactly once, and at DONE there is
\* exactly one batch
C36_CourseConservation ==
    ctl_pc # "generator" =>
        /\ {CurrentIds[k] : k \in DOMAIN CurrentIds} = {ProducedIds[k] : k \in DOMAIN ProducedIds}
        /\ Len(CurrentIds) = Len(ProducedIds)
        /\ ctl_pc = "done" => BatchCount = 1

\* the course has a time slot and a room that are no sentinel
IsPlacedCourse(c) == is_assigned(Get(c, "time_slot")) /\ is_assigned(Get(c, "room_id"))

\* C37: when the level is declared FIXED, every course of every batch of the
\* level is placed
C37_FixedMeansPlaced ==
    is_level_fixed =>
        \A name \in DOMAIN current_schedule_dir.working_schedules :
            \A j \in DOMAIN current_schedule_dir.working_schedules[name] :
                IsPlacedCourse(current_schedule_dir.working_schedules[name][j])

\* every batch file of the directory, validated alone, has no violating course
BatchesClean(dir) ==
    \A name \in {n \in DOMAIN dir.working_schedules : StartsWith(n, BatchPrefix)} :
        validate_hard_constraints(dir.working_schedules[name]).violating_ids = {}

\* the violating courses that the report of the consolidated file states
ConsolidatedViolations(dir) ==
    SumOver([name \in DOMAIN dir.validation_output |->
                dir.validation_output[name].total_unique_courses_violating],
            DOMAIN dir.validation_output \ batch_reports(dir))

C39_OptimizerKeepsPlaced ==
    opt_pc = "done" =>
        \A i \in DOMAIN schedule :
            IsPlacedCourse(schedule[i]) =>
                \E j \in DOMAIN optimized_schedule :
                    /\ optimized_schedule[j]["course_id"] = schedule[i]["course_id"]
                    /\ IsPlacedCourse(optimized_schedule[j])

\* ------------------------------------------------------------------------
\* Properties of the validation of a batch and of the batch it is merged into
\* ------------------------------------------------------------------------

\* the kinds that details reports for course cid
KindsOf(details, cid) == IF cid \in DOMAIN details THEN details[cid] ELSE {}

\* the merged batches that hold the entry c of a source batch with its assignment
MergedWith(c) ==
    {m \in DOMAIN proc_output.batches :
        \E j \in DOMAIN proc_output.batches[m] :
            /\ proc_output.batches[m][j]["course_id"] = c["course_id"]
            /\ proc_output.batches[m][j]["time_slot"] = c["time_slot"]
            /\ proc_output.batches[m][j]["room_id"] = c["room_id"]}

\* C40: every kind reported for a course in its source batch is reported for it
\* in the merged batch that holds the source batch, so a merge whose batches
\* are clean had clean source batches
C40_MonotoneViolations ==
    proc_pc = "merged" =>
        /\ \A name \in DOMAIN proc_input : \A i \in DOMAIN proc_input[name] :
               LET c == proc_input[name][i]
               IN  /\ MergedWith(c) # {}
                   /\ \A m \in MergedWith(c) :
                          KindsOf(proc_output.sources[name], c["course_id"])
                              \subseteq KindsOf(proc_output.merged[m], c["course_id"])
        /\ (\A m \in DOMAIN proc_output.merged : DOMAIN proc_output.merged[m] = {})
               => \A name \in DOMAIN proc_input : DOMAIN proc_output.sources[name] = {}

\* a merge of two batch files: a course has a Room Conflict in its source batch
\* and in the merged batch, where a course of the other batch, which was clean
\* alone, has it too
C40_Witness ==
    /\ proc_pc = "merged"
    /\ Cardinality(DOMAIN proc_input) = 2
    /\ \E name \in DOMAIN proc_input : \E cid \in DOMAIN proc_output.sources[name] :
           /\ KindName.rc \in proc_output.sources[name][cid]
           /\ \E m \in DOMAIN proc_output.merged :
                  /\ KindName.rc \in KindsOf(proc_output.merged[m], cid)
                  /\ \E other \in DOMAIN proc_output.merged[m] :
                         /\ KindName.rc \in proc_output.merged[m][other]
                         /\ \E n2 \in DOMAIN proc_input :
                                /\ proc_output.sources[n2] = <<>>
                                /\ \E j \in DOMAIN proc_input[n2] :
                                       proc_input[n2][j]["course_id"] = other

====
